---------------------------- MODULE Spec2Model ----------------------------
(***************************************************************************)
(* Model of the syncarr synchronization engine (nullable-eth/syncarr).     *)
(*                                                                         *)
(* Strings that the code takes apart (paths) are sequences of one-         *)
(* character strings, so that HasPrefix / TrimPrefix / Base work on        *)
(* characters as the Go code does.  Ratings are integers counting          *)
(* twentieths (0.05), on which the float64 arithmetic of the comparison    *)
(* is exact.  Times are integers counting seconds.                         *)
(***************************************************************************)
EXTENDS Integers, Sequences, FiniteSets, TLC

(***************************************************************************)
(* State                                                                   *)
(***************************************************************************)
\* metadata comparison of one pair: the two items, the position of the
\* call and the differences it returned
VARIABLES cSrc, cDst, cPc, cDiffs

cmpVars == <<cSrc, cDst, cPc, cDiffs>>

\* watch-state reconciliation of one pair: the state each catalog holds for
\* the item, the position of the call, the writes it issued (in order) and
\* whether it returned an error
VARIABLES wSrc, wDst, wPc, wWrites, wErr

watchVars == <<wSrc, wDst, wPc, wWrites, wErr>>

\* one call of the unified wrapper's TransferFile: what the call meets (the
\* local file, the remote file, which remote commands fail, what the backend
\* does), the position of the call and what it did
VARIABLES tIn, tPc, tOut

xferVars == <<tIn, tPc, tOut>>

\* matching and the metadata phase that consumes it: the discovered source
\* items, the destination catalog's items, the position, the matches, the
\* error result of the matcher and the destination items it loaded
\* (allDestItems), and for the metadata phase the source rating keys it
\* compared (in order), the destination-side writes it issued and its
\* three counters
VARIABLES mSource, mDest, mPc, mMatches, mErr, mLoaded, mCompared, mWrites, mCounts

matchVars == <<mSource, mDest, mPc, mMatches, mErr, mLoaded, mCompared, mWrites, mCounts>>

\* one sync cycle of the orchestrator (RunSyncCycle):
\*   pc           the phase the cycle is at
\*   hasTransfer  a transfer backend is configured (fileTransfer # nil)
\*   itemsToSync  the source items discovery returned
\*   xferIdx      the position of the transfer loop in itemsToSync
\*   errorCount   the items whose transferEnhancedItemFiles returned an error
\*   syncedFiles  the destination paths recorded for this cycle
\*   localFs      the files of the local filesystem
\*   destTree     the files under the destination root, with their sizes
\*   destFiles    the listing the cleanup obtained
\*   events       the remote operations issued so far, in order
\*   failures     the failures met so far
\*   result       what RunSyncCycle returned
VARIABLES pc, hasTransfer, itemsToSync, xferIdx, errorCount, syncedFiles, localFs, destTree,
          destFiles, events, failures, result

cycleVars == <<pc, hasTransfer, itemsToSync, xferIdx, errorCount, syncedFiles, localFs, destTree,
               destFiles, events, failures, result>>

\* one round trip of the path mapping: the configured roots (pCfg), which
\* implementation maps (pImpl), the source path, the position, and the
\* results of MapSourcePathToLocal and MapLocalPathToDest
VARIABLES pCfg, pImpl, pSrc, pPc, pLocal, pDest

pathVars == <<pCfg, pImpl, pSrc, pPc, pLocal, pDest>>

\* the process around the orchestrator (main and RunContinuous):
\*   oneShot      the -oneshot flag
\*   mainPc       where main is
\*   loopPc       where the RunContinuous goroutine is
\*   tickPending  the ticker's channel (capacity 1) holds a tick
\*   active       the number of RunSyncCycle calls that have not returned
\*   cycles       the number of RunSyncCycle calls made
\*   returned     the results of the calls that returned, in order
\*   prevRun      how the cycle that returned last went
\*   closed       SyncOrchestrator.Close closed the transfer client
\*   exitHow      how the process ended
VARIABLES oneShot, mainPc, loopPc, tickPending, active, cycles, returned, prevRun, closed, exitHow

procVars == <<oneShot, mainPc, loopPc, tickPending, active, cycles, returned, prevRun, closed, exitHow>>

\* TriggerRefreshAndWait poll by poll:
\*   rPc        where the coordinator is
\*   rElapsed   time.Since(startTime) of the wait it is in, in seconds
\*   rBusy      the destination has a scan or refresh activity in progress
\*   rLibs      the libraries of the destination
\*   rScanned   the libraries whose scan trigger succeeded
\*   rRefreshed the libraries whose metadata refresh trigger succeeded
\*   rEntry     how the wait for existing scans ended
\*   rExit      how the wait for the metadata refreshes ended
\*   rStatus    what the last status request of the scan wait answered
\*   rErr       what TriggerRefreshAndWait returned
VARIABLES rPc, rElapsed, rBusy, rLibs, rScanned, rRefreshed, rEntry, rExit, rStatus, rErr

refreshVars == <<rPc, rElapsed, rBusy, rLibs, rScanned, rRefreshed, rEntry, rExit, rStatus, rErr>>

\* one call of DiscoverSyncableContent: what the source catalog holds and how
\* its requests fare, the position of the call and what it returned
VARIABLES dIn, dPc, dOut

discVars == <<dIn, dPc, dOut>>

\* one call of the metadata synchronizer for a matched pair: the source item
\* and how the destination answers, the position of the call, and the
\* requests it sent with the error it returned
VARIABLES sIn, sPc, sOut

syncVars == <<sIn, sPc, sOut>>

\* the transfer layer's ssh client in continuous mode: where main and the
\* goroutine of RunContinuous are, the client field and its connection, the
\* command the goroutine is issuing and the commands that returned
VARIABLES kMain, kLoop, kClient, kConnOpen, kCmd, kIssued, kFailed

sessVars == <<kMain, kLoop, kClient, kConnOpen, kCmd, kIssued, kFailed>>

\* one call of SCPTransfer.TransferFilesParallel: the number of files, where
\* the caller is and the file it starts a goroutine for next, where each
\* goroutine is, the slots of the semaphore in use, the counter of the
\* WaitGroup, the errors in the error channel, the files whose TransferFile
\* failed and the value returned
VARIABLES qFiles, qMain, qNext, qG, qSem, qWg, qErrs, qFailed, qRet

parVars == <<qFiles, qMain, qNext, qG, qSem, qWg, qErrs, qFailed, qRet>>

\* one call of Config.Validate: the configuration, the position of the call
\* and the error it returned
VARIABLES vCfg, vPc, vErr

validateVars == <<vCfg, vPc, vErr>>

vars == <<cmpVars, watchVars, xferVars, matchVars, cycleVars, pathVars, procVars, refreshVars, validateVars, discVars, syncVars, sessVars, parVars>>

\* what the actions of one component leave alone
exceptCmp == <<watchVars, xferVars, matchVars, cycleVars, pathVars, procVars, refreshVars, validateVars, discVars, syncVars, sessVars, parVars>>

exceptWatch == <<cmpVars, xferVars, matchVars, cycleVars, pathVars, procVars, refreshVars, validateVars, discVars, syncVars, sessVars, parVars>>

exceptXfer == <<cmpVars, watchVars, matchVars, cycleVars, pathVars, procVars, refreshVars, validateVars, discVars, syncVars, sessVars, parVars>>

exceptMatch == <<cmpVars, watchVars, xferVars, cycleVars, pathVars, procVars, refreshVars, validateVars, discVars, syncVars, sessVars, parVars>>

exceptCycle == <<cmpVars, watchVars, xferVars, pathVars, procVars, refreshVars, validateVars, discVars, syncVars, sessVars, parVars>>

exceptPath == <<cmpVars, watchVars, xferVars, matchVars, cycleVars, procVars, refreshVars, validateVars, discVars, syncVars, sessVars, parVars>>

exceptProc == <<cmpVars, watchVars, xferVars, pathVars, refreshVars, validateVars, discVars, syncVars, sessVars, parVars>>

exceptDiscover == <<cmpVars, watchVars, xferVars, matchVars, cycleVars, pathVars, procVars,
                    refreshVars, validateVars, syncVars, sessVars, parVars>>

exceptValidate == <<cmpVars, watchVars, xferVars, matchVars, cycleVars, pathVars, procVars,
                    refreshVars, discVars, syncVars, sessVars, parVars>>

exceptSession == <<cmpVars, watchVars, xferVars, matchVars, cycleVars, pathVars, procVars,
                   refreshVars, discVars, validateVars, syncVars, parVars>>

exceptParallel == <<cmpVars, watchVars, xferVars, matchVars, cycleVars, pathVars, procVars,
                    refreshVars, discVars, validateVars, syncVars, sessVars>>

exceptSync == <<cmpVars, watchVars, xferVars, matchVars, cycleVars, pathVars, procVars,
                refreshVars, discVars, validateVars, sessVars, parVars>>

exceptRefresh == <<cmpVars, watchVars, xferVars, pathVars, procVars, validateVars, discVars, syncVars, sessVars, parVars>>

(***************************************************************************)
(* Generic helpers                                                         *)
(***************************************************************************)
Range(s) == { s[i] : i \in 1..Len(s) }

RECURSIVE SeqsUpTo(_, _)
SeqsUpTo(S, n) ==
    IF n = 0 THEN { <<>> }
    ELSE LET shorter == SeqsUpTo(S, n - 1)
         IN  shorter \cup { Append(q, x) : q \in { r \in shorter : Len(r) = n - 1 }, x \in S }

RECURSIVE Concat(_)
Concat(ss) == IF ss = <<>> THEN <<>> ELSE Head(ss) \o Concat(Tail(ss))

RECURSIVE FilterSeq(_, _)
FilterSeq(s, keep) ==
    IF s = <<>> THEN <<>>
    ELSE (IF Head(s) \in keep THEN <<Head(s)>> ELSE <<>>) \o FilterSeq(Tail(s), keep)

(***************************************************************************)
(* Go strings / path/filepath on a slash-separated platform                *)
(***************************************************************************)
HasPrefix(s, p) == Len(p) <= Len(s) /\ SubSeq(s, 1, Len(p)) = p

HasSuffix(s, p) == Len(p) <= Len(s) /\ SubSeq(s, Len(s) - Len(p) + 1, Len(s)) = p

TrimPrefix(s, p) == IF HasPrefix(s, p) THEN SubSeq(s, Len(p) + 1, Len(s)) ELSE s

TrimSuffix(s, p) == IF HasSuffix(s, p) THEN SubSeq(s, 1, Len(s) - Len(p)) ELSE s

\* strings.Index(s, ch) for a one-character needle, 1-based; 0 when absent
Index(s, ch) ==
    IF \E i \in 1..Len(s) : s[i] = ch
    THEN CHOOSE i \in 1..Len(s) : s[i] = ch /\ \A j \in 1..(i - 1) : s[j] # ch
    ELSE 0

LastSlash(s) ==
    IF \E i \in 1..Len(s) : s[i] = "/"
    THEN CHOOSE i \in 1..Len(s) : s[i] = "/" /\ \A j \in (i + 1)..Len(s) : s[j] # "/"
    ELSE 0

RECURSIVE StripTrailingSlashes(_)
StripTrailingSlashes(s) ==
    IF Len(s) > 0 /\ s[Len(s)] = "/" THEN StripTrailingSlashes(SubSeq(s, 1, Len(s) - 1)) ELSE s

\* the elements of a path between its slashes
RECURSIVE SplitSlash(_, _)
SplitSlash(s, cur) ==
    IF s = <<>> THEN << cur >>
    ELSE IF Head(s) = "/" THEN << cur >> \o SplitSlash(Tail(s), <<>>)
    ELSE SplitSlash(Tail(s), Append(cur, Head(s)))

RECURSIVE JoinSlash(_)
JoinSlash(elems) ==
    IF elems = <<>> THEN <<>>
    ELSE IF Len(elems) = 1 THEN Head(elems)
    ELSE Head(elems) \o << "/" >> \o JoinSlash(Tail(elems))

\* the element loop of filepath.Clean: empty and "." elements are dropped,
\* ".." removes the element before it, is dropped at the root and is kept at
\* the start of a relative path
RECURSIVE CleanElems(_, _, _)
CleanElems(elems, out, rooted) ==
    IF elems = <<>> THEN out
    ELSE LET e == Head(elems)
             next ==
               IF e = <<>> \/ e = << "." >> THEN out
               ELSE IF e = << ".", "." >>
               THEN IF out # <<>> /\ out[Len(out)] # << ".", "." >>
                    THEN SubSeq(out, 1, Len(out) - 1)
                    ELSE IF rooted THEN out ELSE Append(out, e)
               ELSE Append(out, e)
         IN  CleanElems(Tail(elems), next, rooted)

\* filepath.Clean
Clean(s) ==
    IF s = <<>> THEN << "." >>
    ELSE LET rooted == s[1] = "/"
             body   == JoinSlash(CleanElems(SplitSlash(s, <<>>), <<>>, rooted))
         IN  IF rooted THEN << "/" >> \o body
             ELSE IF body = <<>> THEN << "." >> ELSE body

\* filepath.Base
Base(s) ==
    IF s = <<>> THEN <<".">>
    ELSE LET t == StripTrailingSlashes(s)
         IN  IF t = <<>> THEN <<"/">>
             ELSE SubSeq(t, LastSlash(t) + 1, Len(t))

\* filepath.Dir
Dir(s) == Clean(SubSeq(s, 1, LastSlash(s)))

\* filepath.Join of two elements
Join(a, b) ==
    IF a = <<>> /\ b = <<>> THEN <<>>
    ELSE IF a = <<>> THEN Clean(b)
    ELSE IF b = <<>> THEN Clean(a)
    ELSE Clean(a \o <<"/">> \o b)


(***************************************************************************)
(* Bounds                                                                  *)
(***************************************************************************)
\* longest tag list handed to a comparison
MaxTags == 3
\* largest rating handed to a comparison, in twentieths (160 = 8.0)
MaxRatingUnits == 160
\* smallest non-zero rating handed to a comparison, in twentieths (120 = 6.0)
MinRatingUnits == 120

(***************************************************************************)
(* Metadata comparison (orchestrator)                                      *)
(***************************************************************************)
TagNames == { "a", "b" }

TagLists == SeqsUpTo(TagNames, MaxTags)

\* int64(x) of a float64: truncation toward zero of n/d
TruncDiv(n, d) == IF n >= 0 THEN n \div d ELSE -((-n) \div d)

abs(x) == IF x < 0 THEN -x ELSE x

\* mutant: the tolerance is two tenths
ratingDiffers_TwoTenths(s, d) == abs(TruncDiv(s - d, 2)) > 2

\* abs(int64(source*10 - dest*10)) > 1 on ratings counted in twentieths:
\* source*10 - dest*10 is (s - d)/2
ratingDiffers(s, d) == abs(TruncDiv(s - d, 2)) > 1

\* extractTags / extractCollectionTags: the Tag of every entry, in order
extractTags(items) == items

extractCollectionTags(collections) == collections

compareTagArrays(source, dest) ==
    LET sourceTags == extractTags(source)
        destTags   == extractTags(dest)
        sourceMap  == Range(sourceTags)
        destMap    == Range(destTags)
    IN  IF Len(sourceTags) # Len(destTags) THEN FALSE
        ELSE \A tag \in sourceMap : tag \in destMap

compareCollectionArrays(source, dest) ==
    LET sourceTags == extractCollectionTags(source)
        destTags   == extractCollectionTags(dest)
        sourceMap  == Range(sourceTags)
        destMap    == Range(destTags)
    IN  IF Len(sourceTags) # Len(destTags) THEN FALSE
        ELSE \A tag \in sourceMap : tag \in destMap

Diff(cond, name) == IF cond THEN <<name>> ELSE <<>>

compareMovieMetadata(source, dest) ==
       Diff(source.title # dest.title, "title")
    \o Diff(source.originalTitle # dest.originalTitle, "originalTitle")
    \o Diff(source.year # dest.year, "year")
    \o Diff(source.studio # dest.studio, "studio")
    \o Diff(source.contentRating # dest.contentRating, "contentRating")
    \o Diff(source.summary # dest.summary, "summary")
    \o Diff(source.tagline # dest.tagline, "tagline")
    \o Diff(ratingDiffers(source.userRating, dest.userRating), "userRating")
    \o Diff(source.thumb # dest.thumb, "thumb")
    \o Diff(source.art # dest.art, "art")
    \o Diff(~compareTagArrays(source.genre, dest.genre), "genres")
    \o Diff(~compareTagArrays(source.label, dest.label), "labels")
    \o Diff(~compareCollectionArrays(source.collection, dest.collection), "collections")
    \o Diff(source.viewCount # dest.viewCount, "viewCount")

compareTVShowMetadata(source, dest) ==
       Diff(source.title # dest.title, "title")
    \o Diff(source.originalTitle # dest.originalTitle, "originalTitle")
    \o Diff(source.year # dest.year, "year")
    \o Diff(source.studio # dest.studio, "studio")
    \o Diff(source.network # dest.network, "network")
    \o Diff(source.contentRating # dest.contentRating, "contentRating")
    \o Diff(source.summary # dest.summary, "summary")
    \o Diff(source.tagline # dest.tagline, "tagline")
    \o Diff(ratingDiffers(source.userRating, dest.userRating), "userRating")
    \o Diff(source.thumb # dest.thumb, "thumb")
    \o Diff(source.art # dest.art, "art")
    \o Diff(~compareTagArrays(source.genre, dest.genre), "genres")
    \o Diff(~compareTagArrays(source.label, dest.label), "labels")
    \o Diff(~compareCollectionArrays(source.collection, dest.collection), "collections")
    \o Diff(source.viewCount # dest.viewCount, "viewCount")

\* a comparison that finds nothing to report for an item that is neither a
\* movie nor a show
findMetadataDifferences_UnsupportedEqual(sourceItem, destItem) ==
    IF sourceItem.kind = "movie"
    THEN IF destItem.kind = "movie" THEN compareMovieMetadata(sourceItem, destItem)
         ELSE <<"types">>
    ELSE IF sourceItem.kind = "show"
    THEN IF destItem.kind = "show" THEN compareTVShowMetadata(sourceItem, destItem)
         ELSE <<"types">>
    ELSE <<>>

findMetadataDifferences(sourceItem, destItem) ==
    IF sourceItem.kind = "movie"
    THEN IF destItem.kind = "movie" THEN compareMovieMetadata(sourceItem, destItem)
         ELSE <<"types">>
    ELSE IF sourceItem.kind = "show"
    THEN IF destItem.kind = "show" THEN compareTVShowMetadata(sourceItem, destItem)
         ELSE <<"types">>
    ELSE <<"unsupported">>

\* compareEnhancedMetadata: needsSync (its error result is always nil)
compareEnhancedMetadata(sourceEnhanced, destEnhanced) ==
    Len(findMetadataDifferences(sourceEnhanced, destEnhanced)) > 0


(***************************************************************************)
(* Catalog items.  kind is the Go type held by EnhancedMediaItem.Item.     *)
(***************************************************************************)
Kinds == { "movie", "show", "episode" }

BaseItem(kind) ==
    [ kind |-> kind, ratingKey |-> "k1", libraryID |-> "1", files |-> <<>>,
      title |-> "t", originalTitle |-> "t", year |-> 2000, studio |-> "s",
      network |-> "n", contentRating |-> "PG", summary |-> "x", tagline |-> "y",
      userRating |-> 0, thumb |-> "p", art |-> "q",
      genre |-> <<>>, label |-> <<>>, collection |-> <<>>, viewCount |-> 0 ]

TagFields == { "genre", "label", "collection" }

StringFields == { "title", "originalTitle", "studio", "network",
                  "contentRating", "summary", "tagline", "thumb", "art" }

IntFields == { "year", "viewCount" }

\* pairs handed to the comparison: same kind and one tag field varying, same
\* kind and the rating varying, any two kinds and one scalar field varying
TagPairs ==
    { << [BaseItem(k) EXCEPT ![f] = x], [BaseItem(k) EXCEPT ![f] = y] >> :
        k \in { "movie", "show" }, f \in TagFields, x \in TagLists, y \in TagLists }

\* 0 is the rating of an unrated item
Ratings == { 0 } \cup MinRatingUnits..MaxRatingUnits

RatingPairs ==
    { << [BaseItem(k) EXCEPT !.userRating = s], [BaseItem(k) EXCEPT !.userRating = d] >> :
        k \in { "movie", "show" }, s \in Ratings, d \in Ratings }

FieldPairs ==
    { << BaseItem(k1), [BaseItem(k2) EXCEPT ![f] = v] >> :
        k1 \in Kinds, k2 \in Kinds, f \in StringFields, v \in { "t", "other" } }
    \cup
    { << BaseItem(k1), [BaseItem(k2) EXCEPT ![f] = v] >> :
        k1 \in Kinds, k2 \in Kinds, f \in IntFields, v \in { 0, 2000 } }

ComparePairs == TagPairs \cup RatingPairs \cup FieldPairs

CompareInit ==
    /\ \E p \in ComparePairs : cSrc = p[1] /\ cDst = p[2]
    /\ cPc = "call"
    /\ cDiffs = <<>>

\* one call of compareEnhancedMetadata on the pair
CompareMetadata ==
    /\ cPc = "call"
    /\ cDiffs' = findMetadataDifferences(cSrc, cDst)
    /\ cPc' = "returned"
    /\ UNCHANGED <<cSrc, cDst>>
    /\ UNCHANGED exceptCmp

\* the comparison is not under study
CompareIdle ==
    /\ cSrc = "none"
    /\ cDst = "none"
    /\ cPc = "off"
    /\ cDiffs = <<>>


(***************************************************************************)
(* Watch-state reconciliation (metadata synchronizer, catalog client)      *)
(***************************************************************************)
\* largest view count and last-viewed timestamp a catalog holds
MaxViews == 3
MaxStamp == 2

\* what a catalog can hold for an item: watched exactly when it was viewed
ServerWatchStates ==
    { st \in [ watched : BOOLEAN, viewCount : 0..MaxViews, lastViewedAt : 0..MaxStamp ] :
        st.watched <=> st.viewCount > 0 }

\* Client.GetWatchedState: the response is fetched but not parsed; the
\* default state is returned whatever the catalog holds
GetWatchedState(serverState) ==
    [ watched |-> FALSE, viewCount |-> 0, viewOffset |-> 0, lastViewedAt |-> 0 ]

\* the two decisions of syncWatchedState
syncToDest(sourceWatchedState, destWatchedState) ==
    \/ /\ sourceWatchedState.watched /\ ~destWatchedState.watched
       /\ \/ destWatchedState.lastViewedAt = 0
          \/ sourceWatchedState.lastViewedAt > destWatchedState.lastViewedAt
    \/ /\ sourceWatchedState.watched /\ destWatchedState.watched
       /\ \/ sourceWatchedState.viewCount > destWatchedState.viewCount
          \/ /\ ~(destWatchedState.viewCount > sourceWatchedState.viewCount)
             /\ sourceWatchedState.lastViewedAt > destWatchedState.lastViewedAt

\* a decision for the source that does not look at the decision for the
\* destination when both sides are watched
syncToSource_NoElse(sourceWatchedState, destWatchedState) ==
    \/ /\ ~sourceWatchedState.watched /\ destWatchedState.watched
       /\ \/ sourceWatchedState.lastViewedAt = 0
          \/ destWatchedState.lastViewedAt > sourceWatchedState.lastViewedAt
    \/ /\ sourceWatchedState.watched /\ destWatchedState.watched
       /\ \/ destWatchedState.viewCount > sourceWatchedState.viewCount
          \/ destWatchedState.lastViewedAt > sourceWatchedState.lastViewedAt

syncToSource(sourceWatchedState, destWatchedState) ==
    \/ /\ ~sourceWatchedState.watched /\ destWatchedState.watched
       /\ \/ sourceWatchedState.lastViewedAt = 0
          \/ destWatchedState.lastViewedAt > sourceWatchedState.lastViewedAt
    \/ /\ sourceWatchedState.watched /\ destWatchedState.watched
       /\ ~(sourceWatchedState.viewCount > destWatchedState.viewCount)
       /\ \/ destWatchedState.viewCount > sourceWatchedState.viewCount
          \/ /\ ~(sourceWatchedState.lastViewedAt > destWatchedState.lastViewedAt)
             /\ destWatchedState.lastViewedAt > sourceWatchedState.lastViewedAt

WatchInit ==
    /\ wSrc \in ServerWatchStates
    /\ wDst \in ServerWatchStates
    /\ wPc = "call"
    /\ wWrites = <<>>
    /\ wErr = FALSE

\* the reconciliation is not under study
WatchIdle ==
    /\ wSrc = "none"
    /\ wDst = "none"
    /\ wPc = "off"
    /\ wWrites = <<>>
    /\ wErr = FALSE

\* one call of syncWatchedState; getSrcOk, getDstOk, setDstOk, setSrcOk say
\* which catalog requests succeed
SyncWatchedState ==
    /\ wPc = "call"
    /\ \E getSrcOk \in BOOLEAN, getDstOk \in BOOLEAN, setDstOk \in BOOLEAN, setSrcOk \in BOOLEAN :
        LET sourceWatchedState == GetWatchedState(wSrc)
            destWatchedState   == GetWatchedState(wDst)
            toDest   == syncToDest(sourceWatchedState, destWatchedState)
            toSource == syncToSource(sourceWatchedState, destWatchedState)
            destWrite   == [ to |-> "dest", watched |-> sourceWatchedState.watched ]
            sourceWrite == [ to |-> "source", watched |-> destWatchedState.watched ]
        IN  IF ~getSrcOk \/ ~getDstOk
            THEN wWrites' = <<>> /\ wErr' = TRUE
            ELSE IF toDest /\ ~setDstOk
            THEN wWrites' = <<destWrite>> /\ wErr' = TRUE
            ELSE IF toSource /\ ~setSrcOk
            THEN wWrites' = (IF toDest THEN <<destWrite>> ELSE <<>>) \o <<sourceWrite>>
                 /\ wErr' = TRUE
            ELSE /\ wWrites' = (IF toDest THEN <<destWrite>> ELSE <<>>)
                                 \o (IF toSource THEN <<sourceWrite>> ELSE <<>>)
                 /\ wErr' = FALSE
    /\ wPc' = "returned"
    /\ UNCHANGED <<wSrc, wDst>>
    /\ UNCHANGED exceptWatch

(***************************************************************************)
(* Unified transfer wrapper                                                *)
(***************************************************************************)
\* file sizes; 0 as a remote size stands for "no such file"
FileSizes == { 1, 2 }

\* what the backend's raw transfer can do: move the file, find it up to date
\* (rsync prints no itemize and no progress line and doTransferFile returns
\* nil), fail, or fail with an error text that contains "file_skipped"
BackendOutcomes == { "transferred", "uptodate", "error", "error_file_skipped" }

\* sshClient.GetFileSize: stat fails on a missing file
GetFileSize(remoteSize, cmdOk) ==
    IF cmdOk /\ remoteSize # 0 THEN [ ok |-> TRUE, size |-> remoteSize ]
    ELSE [ ok |-> FALSE, size |-> 0 ]

\* sshClient.CreateDirectory: a failed mkdir is logged and nil is returned
CreateDirectory(cmdOk) == [ ok |-> TRUE ]

\* FileExists of the backends (older wrapper): the rsync backend reports a
\* failed "test -f" as "does not exist", the sftp backend reports an error
\* when the connection fails
FileExists(remoteSize, cmdOk) ==
    IF cmdOk THEN [ ok |-> TRUE, exists |-> remoteSize # 0 ]
    ELSE [ ok |-> FALSE, exists |-> FALSE ]

\* mutant: the early return of the same-size branch is missing
transferClient_TransferFile_NoEarlyReturn(in) ==
    LET mkdir == CreateDirectory(in.mkdirCmdOk)
    IN  IF ~in.statOk
        THEN [ ret |-> "err_stat", calls |-> <<>>, log |-> <<>> ]
        ELSE IF ~mkdir.ok
        THEN [ ret |-> "err_mkdir", calls |-> <<"GetFileSize", "CreateDirectory">>,
               log |-> <<>> ]
        ELSE IF in.backend = "error_file_skipped"
        THEN [ ret |-> "ok", calls |-> <<"GetFileSize", "CreateDirectory", "doTransferFile">>,
               log |-> <<"transfer_started", "transfer_skipped">> ]
        ELSE IF in.backend = "error"
        THEN [ ret |-> "err_transfer",
               calls |-> <<"GetFileSize", "CreateDirectory", "doTransferFile">>,
               log |-> <<"transfer_started">> ]
        ELSE [ ret |-> "ok", calls |-> <<"GetFileSize", "CreateDirectory", "doTransferFile">>,
               log |-> <<"transfer_started", "transfer_completed">> ]

\* transferClient.TransferFile (transfer.go): returned value, remote commands
\* and backend calls issued (in order), transfer events logged (in order)
transferClient_TransferFile(in) ==
    LET destSize == GetFileSize(in.remoteSize, in.sizeCmdOk)
        mkdir    == CreateDirectory(in.mkdirCmdOk)
    IN  IF ~in.statOk
        THEN [ ret |-> "err_stat", calls |-> <<>>, log |-> <<>> ]
        ELSE IF destSize.ok /\ destSize.size = in.localSize
        THEN [ ret |-> "ok", calls |-> <<"GetFileSize">>, log |-> <<"transfer_skipped">> ]
        ELSE IF ~mkdir.ok
        THEN [ ret |-> "err_mkdir", calls |-> <<"GetFileSize", "CreateDirectory">>,
               log |-> <<>> ]
        ELSE IF in.backend = "error_file_skipped"
        THEN [ ret |-> "ok", calls |-> <<"GetFileSize", "CreateDirectory", "doTransferFile">>,
               log |-> <<"transfer_started", "transfer_skipped">> ]
        ELSE IF in.backend = "error"
        THEN [ ret |-> "err_transfer",
               calls |-> <<"GetFileSize", "CreateDirectory", "doTransferFile">>,
               log |-> <<"transfer_started">> ]
        ELSE [ ret |-> "ok", calls |-> <<"GetFileSize", "CreateDirectory", "doTransferFile">>,
               log |-> <<"transfer_started", "transfer_completed">> ]

\* TransferClient.TransferFile (older wrapper): existence check first, no
\* directory creation of its own
TransferClient_TransferFile(in) ==
    LET destExists == FileExists(in.remoteSize, in.existsCmdOk)
        destSize   == GetFileSize(in.remoteSize, in.sizeCmdOk)
        sizeAsked  == destExists.ok /\ destExists.exists
        pre        == <<"fileExists">> \o (IF sizeAsked THEN <<"getFileSize">> ELSE <<>>)
    IN  IF ~in.statOk
        THEN [ ret |-> "err_stat", calls |-> <<>>, log |-> <<>> ]
        ELSE IF sizeAsked /\ destSize.ok /\ destSize.size = in.localSize
        THEN [ ret |-> "ok", calls |-> pre, log |-> <<"transfer_skipped">> ]
        ELSE IF in.backend \in { "error", "error_file_skipped" }
        THEN [ ret |-> "err_transfer", calls |-> pre \o <<"doTransferFile">>,
               log |-> <<"transfer_started">> ]
        ELSE [ ret |-> "ok", calls |-> pre \o <<"doTransferFile">>,
               log |-> <<"transfer_started", "transfer_completed">> ]

TransferInputs ==
    [ wrapper : { "transferClient", "TransferClient" },
      statOk : BOOLEAN, localSize : FileSizes,
      remoteSize : { 0 } \cup FileSizes,
      existsCmdOk : BOOLEAN, sizeCmdOk : BOOLEAN, mkdirCmdOk : BOOLEAN,
      backend : BackendOutcomes ]

NoTransferOutput == [ ret |-> "none", calls |-> <<>>, log |-> <<>> ]

TransferInit ==
    /\ tIn \in TransferInputs
    /\ tPc = "call"
    /\ tOut = NoTransferOutput

\* the wrapper is not under study
TransferIdle ==
    /\ tIn = "none"
    /\ tPc = "off"
    /\ tOut = NoTransferOutput

\* one call of TransferFile of the current wrapper
TransferFile ==
    /\ tPc = "call"
    /\ tIn.wrapper = "transferClient"
    /\ tOut' = transferClient_TransferFile(tIn)
    /\ tPc' = "returned"
    /\ UNCHANGED tIn
    /\ UNCHANGED exceptXfer

\* one call of TransferFile of the older wrapper
TransferFileOlder ==
    /\ tPc = "call"
    /\ tIn.wrapper = "TransferClient"
    /\ tOut' = TransferClient_TransferFile(tIn)
    /\ tPc' = "returned"
    /\ UNCHANGED tIn
    /\ UNCHANGED exceptXfer


(***************************************************************************)
(* Content matcher and metadata phase                                      *)
(***************************************************************************)
\* most source items discovered, most items in the destination catalog, most
\* backing files (parts) of one item
MaxSrcItems == 2
MaxDstItems == 2
MaxParts == 2
MaxDstParts == 1

Path(dir, name) == << "/", dir, "/", name >>

\* Part.File of the source items: "" is a part without a file
SourceFiles == { Path("s", "a"), Path("s", "b"), <<>> }

DestFiles == { Path("d", "a"), Path("e", "b") }

DestLibraryKeys == << "1", "2" >>

\* an item of a catalog as the matcher and the metadata phase hold it; the
\* metadata fields that are not written here have the values of BaseItem on
\* both catalogs
CatalogItem(kind, ratingKey, libraryID, title, files) ==
    [ kind |-> kind, ratingKey |-> ratingKey, libraryID |-> libraryID,
      title |-> title, files |-> files ]

FullMetadata(item) ==
    [BaseItem(item.kind) EXCEPT !.ratingKey = item.ratingKey, !.libraryID = item.libraryID,
                                !.title = item.title, !.files = item.files]

\* extractFilePaths: the non-empty Part.File of the item, in declaration order
RECURSIVE extractFilePaths(_)
extractFilePaths(files) ==
    IF files = <<>> THEN <<>>
    ELSE (IF Head(files) # <<>> THEN << Head(files) >> ELSE <<>>) \o extractFilePaths(Tail(files))

\* the items of the destination catalog that reach allDestItems: library by
\* library, without the libraries whose content request failed and the items
\* whose detail request failed (episodes need no detail request)
RECURSIVE SelectLoaded(_, _, _)
SelectLoaded(items, libraryKey, failedLoads) ==
    IF items = <<>> THEN <<>>
    ELSE LET it == Head(items)
             loaded == /\ it.libraryID = libraryKey
                       /\ it.ratingKey # ""
                       /\ (it.kind = "episode" \/ it.ratingKey \notin failedLoads)
         IN  (IF loaded THEN << it >> ELSE <<>>) \o SelectLoaded(Tail(items), libraryKey, failedLoads)

RECURSIVE LoadAllDestItems(_, _, _, _)
LoadAllDestItems(libraries, items, failedLibraries, failedLoads) ==
    IF libraries = <<>> THEN <<>>
    ELSE (IF Head(libraries) \in failedLibraries THEN <<>>
          ELSE SelectLoaded(items, Head(libraries), failedLoads))
         \o LoadAllDestItems(Tail(libraries), items, failedLibraries, failedLoads)

\* destFileIndex: base name -> destination item, later entries overwrite
\* earlier ones.  The index is a function on the indexed base names.
RECURSIVE IndexFiles(_, _, _)
IndexFiles(index, item, filePaths) ==
    IF filePaths = <<>> THEN index
    ELSE LET filename == Base(Head(filePaths))
             next == IF filename # <<>>
                     THEN [ n \in (DOMAIN index) \cup { filename } |->
                               IF n = filename THEN item ELSE index[n] ]
                     ELSE index
         IN  IndexFiles(next, item, Tail(filePaths))

RECURSIVE BuildIndex(_, _)
BuildIndex(index, allDestItems) ==
    IF allDestItems = <<>> THEN index
    ELSE BuildIndex(IndexFiles(index, Head(allDestItems), extractFilePaths(Head(allDestItems).files)),
                    Tail(allDestItems))

EmptyIndex == [ n \in {} |-> 0 ]

\* mutant: the loop over the source item's files takes the last indexed name
RECURSIVE MatchOne_LastWins(_, _, _)
MatchOne_LastWins(index, sourceEnhanced, sourceFilePaths) ==
    IF sourceFilePaths = <<>> THEN <<>>
    ELSE LET sourceFilename == Base(sourceFilePaths[Len(sourceFilePaths)])
         IN  IF sourceFilename # <<>> /\ sourceFilename \in DOMAIN index
             THEN << [ SourceItem |-> sourceEnhanced, DestItem |-> index[sourceFilename],
                       Filename |-> sourceFilename ] >>
             ELSE MatchOne_LastWins(index, sourceEnhanced,
                                    SubSeq(sourceFilePaths, 1, Len(sourceFilePaths) - 1))

\* the inner loop of the matching: the first of the source item's files whose
\* base name is indexed gives the match, then the loop breaks
RECURSIVE MatchOne(_, _, _)
MatchOne(index, sourceEnhanced, sourceFilePaths) ==
    IF sourceFilePaths = <<>> THEN <<>>
    ELSE LET sourceFilename == Base(Head(sourceFilePaths))
         IN  IF sourceFilename # <<>> /\ sourceFilename \in DOMAIN index
             THEN << [ SourceItem |-> sourceEnhanced, DestItem |-> index[sourceFilename],
                       Filename |-> sourceFilename ] >>
             ELSE MatchOne(index, sourceEnhanced, Tail(sourceFilePaths))

RECURSIVE MatchAll(_, _)
MatchAll(index, sourceItems) ==
    IF sourceItems = <<>> THEN <<>>
    ELSE MatchOne(index, Head(sourceItems), extractFilePaths(Head(sourceItems).files))
         \o MatchAll(index, Tail(sourceItems))

\* ContentMatcher.MatchItemsByFilename
MatchItemsByFilename(sourceItems, destItems, librariesOk, failedLibraries, failedLoads) ==
    IF ~librariesOk THEN [ err |-> TRUE, loaded |-> <<>>, matches |-> <<>> ]
    ELSE LET allDestItems  == LoadAllDestItems(DestLibraryKeys, destItems, failedLibraries, failedLoads)
             destFileIndex == BuildIndex(EmptyIndex, allDestItems)
         IN  [ err |-> FALSE, loaded |-> allDestItems,
               matches |-> MatchAll(destFileIndex, sourceItems) ]

\* getItemRatingKey / getEnhancedItemRatingKey
getItemRatingKey(item) == IF item.kind \in Kinds THEN item.ratingKey ELSE ""

\* syncAllMetadata: the loop over the matches.  The call of the
\* synchronizer's apply is commented out in the source: a pair that needs
\* sync is counted as a success and nothing is written.
RECURSIVE syncAllMetadata(_, _)
syncAllMetadata(matches, acc) ==
    IF matches = <<>> THEN acc
    ELSE LET match == Head(matches)
             destRatingKey == getItemRatingKey(match.DestItem)
             needsSync == compareEnhancedMetadata(FullMetadata(match.SourceItem),
                                                  FullMetadata(match.DestItem))
             next ==
                IF destRatingKey = ""
                THEN [ acc EXCEPT !.errors = @ + 1 ]
                ELSE IF ~needsSync
                THEN [ acc EXCEPT !.skipped = @ + 1,
                                  !.compared = Append(@, match.SourceItem.ratingKey) ]
                ELSE [ acc EXCEPT !.success = @ + 1,
                                  !.compared = Append(@, match.SourceItem.ratingKey) ]
         IN  syncAllMetadata(Tail(matches), next)

NoMetadataRun == [ success |-> 0, errors |-> 0, skipped |-> 0, compared |-> <<>>, writes |-> <<>> ]

\* the discovered source items: rating keys s1, s2, .. in discovery order
\* (RunSyncCycle returns before the matching when nothing was discovered)
SourceItemLists ==
    UNION { { [ i \in 1..n |-> CatalogItem("movie", "s" \o ToString(i), "1", "t", fl[i]) ] :
                fl \in [ 1..n -> SeqsUpTo(SourceFiles, MaxParts) ] } : n \in 1..MaxSrcItems }

\* the destination catalog: rating keys d1, d2, .., each item in one of the
\* two libraries; the title of d1 differs from the source's, the others'
\* metadata equals the source's
DestItemLists ==
    UNION { { [ i \in 1..n |-> CatalogItem("movie", "d" \o ToString(i), o[i][1],
                                           IF i = 1 THEN "other" ELSE "t", o[i][2]) ] :
                o \in [ 1..n -> Range(DestLibraryKeys) \X SeqsUpTo(DestFiles, MaxDstParts) ] } :
            n \in 0..MaxDstItems }

MatchInit ==
    /\ mSource \in SourceItemLists
    /\ mDest \in DestItemLists
    /\ mPc = "match"
    /\ mMatches = <<>>
    /\ mErr = FALSE
    /\ mLoaded = <<>>
    /\ mCompared = <<>>
    /\ mWrites = <<>>
    /\ mCounts = << 0, 0, 0 >>

\* the matcher is not under study
MatchIdle ==
    /\ mSource = <<>>
    /\ mDest = <<>>
    /\ mPc = "off"
    /\ mMatches = <<>>
    /\ mErr = FALSE
    /\ mLoaded = <<>>
    /\ mCompared = <<>>
    /\ mWrites = <<>>
    /\ mCounts = << 0, 0, 0 >>

\* Phase 5 of RunSyncCycle: one call of MatchItemsByFilename; an error ends
\* the cycle.  librariesOk, failedLibraries and failedLoads say which
\* requests to the destination catalog succeed (a request is made only for
\* the libraries that were listed and the items of the libraries that
\* answered)
MatchItems ==
    /\ mPc = "match"
    /\ \E librariesOk \in BOOLEAN :
       \E failedLibraries \in (IF librariesOk THEN SUBSET Range(DestLibraryKeys) ELSE { {} }) :
       \E failedLoads \in (IF librariesOk
                            THEN SUBSET { mDest[i].ratingKey : i \in { j \in DOMAIN mDest :
                                              mDest[j].libraryID \notin failedLibraries } }
                            ELSE { {} }) :
        LET r == MatchItemsByFilename(mSource, mDest, librariesOk, failedLibraries, failedLoads)
        IN  /\ mErr' = r.err
            /\ mLoaded' = r.loaded
            /\ mMatches' = r.matches
            /\ mPc' = IF r.err THEN "failed" ELSE "matched"
    /\ UNCHANGED <<mSource, mDest, mCompared, mWrites, mCounts>>
    /\ UNCHANGED exceptMatch

\* Phase 6 of RunSyncCycle: syncAllMetadata on the matches, when there are any
SyncMetadata ==
    /\ mPc = "matched"
    /\ LET r == IF Len(mMatches) > 0 THEN syncAllMetadata(mMatches, NoMetadataRun)
                ELSE NoMetadataRun
       IN  /\ mCompared' = r.compared
           /\ mWrites' = r.writes
           /\ mCounts' = << r.success, r.errors, r.skipped >>
    /\ mPc' = "done"
    /\ UNCHANGED <<mSource, mDest, mMatches, mErr, mLoaded>>
    /\ UNCHANGED exceptMatch


(***************************************************************************)
(* Sync cycle: configuration, filesystems and path mapping                 *)
(***************************************************************************)
\* a file path /dir/stem.ext
File(dir, stem, ext) == << "/", dir, "/", stem, ".", ext >>

\* SOURCE_REPLACE_FROM, SOURCE_REPLACE_TO, DEST_ROOT_DIR
sourceReplaceFrom == << "/", "s" >>
sourceReplaceTo == << "/", "l" >>
destRootDir == << "/", "d" >>

\* the files the local filesystem may hold, in directory order: the media
\* file of the movie, a companion of it, the media file of the episode
LocalUniverse == << File("l", "a", "m"), File("l", "a", "s"), File("l", "b", "m") >>

\* the files the destination root may hold, in the order find lists them;
\* /d/z.m belongs to no source item
DestUniverse == << File("d", "a", "m"), File("d", "a", "s"), File("d", "b", "m"),
                   File("d", "z", "m") >>

\* size of every local file, and the size of a destination file that
\* differs from it
LocalSize == 1
StaleSize == 2

\* RsyncTransfer.MapSourcePathToLocal and SCPTransfer.MapSourcePathToLocal
\* (the same code) under the configured roots cfg; Config.MapSourcePathToLocal
\* returns the same
mapSourcePathToLocal(cfg, sourcePath) ==
    IF sourcePath = <<>> THEN [ ok |-> FALSE, path |-> <<>> ]
    ELSE IF cfg.sourceReplaceFrom = <<>> \/ cfg.sourceReplaceTo = <<>>
    THEN [ ok |-> TRUE, path |-> sourcePath ]
    ELSE IF ~HasPrefix(sourcePath, cfg.sourceReplaceFrom) THEN [ ok |-> FALSE, path |-> <<>> ]
    ELSE LET relativePath == TrimPrefix(TrimPrefix(sourcePath, cfg.sourceReplaceFrom), << "/" >>)
         IN  [ ok |-> TRUE, path |-> Join(cfg.sourceReplaceTo, relativePath) ]

\* RsyncTransfer.MapLocalPathToDest and SCPTransfer.MapLocalPathToDest (the
\* same code) under the configured roots cfg
mapLocalPathToDest(cfg, localPath) ==
    IF localPath = <<>> \/ cfg.destRootDir = <<>> THEN [ ok |-> FALSE, path |-> <<>> ]
    ELSE IF cfg.sourceReplaceTo # <<>> /\ ~HasPrefix(localPath, cfg.sourceReplaceTo)
    THEN [ ok |-> FALSE, path |-> <<>> ]
    ELSE LET relativePath ==
                 IF cfg.sourceReplaceTo # <<>>
                 THEN TrimPrefix(TrimPrefix(localPath, cfg.sourceReplaceTo), << "/" >>)
                 ELSE Base(localPath)
         IN  [ ok |-> TRUE,
               path |-> TrimSuffix(cfg.destRootDir, << "/" >>) \o << "/" >> \o relativePath ]

\* Config.MapLocalPathToDest: as the backends', with one more branch when
\* only the source prefix is configured
Config_MapLocalPathToDest(cfg, localPath) ==
    IF localPath = <<>> \/ cfg.destRootDir = <<>> THEN [ ok |-> FALSE, path |-> <<>> ]
    ELSE LET root == IF cfg.sourceReplaceTo # <<>> THEN cfg.sourceReplaceTo
                     ELSE cfg.sourceReplaceFrom
         IN  IF root # <<>> /\ ~HasPrefix(localPath, root)
             THEN [ ok |-> FALSE, path |-> <<>> ]
             ELSE LET relativePath ==
                          IF root # <<>>
                          THEN TrimPrefix(TrimPrefix(localPath, root), << "/" >>)
                          ELSE Base(localPath)
                  IN  [ ok |-> TRUE,
                        path |-> TrimSuffix(cfg.destRootDir, << "/" >>) \o << "/" >>
                                 \o relativePath ]

\* the roots the sync cycle of this model runs under
CycleConfig ==
    [ sourceReplaceFrom |-> sourceReplaceFrom, sourceReplaceTo |-> sourceReplaceTo,
      destRootDir |-> destRootDir ]

\* RsyncTransfer.MapSourcePathToLocal
MapSourcePathToLocal(sourcePath) == mapSourcePathToLocal(CycleConfig, sourcePath)

\* RsyncTransfer.MapLocalPathToDest
MapLocalPathToDest(localPath) == mapLocalPathToDest(CycleConfig, localPath)

(***************************************************************************)
(* The metadata synchronizer: labels and genres of a matched pair          *)
(***************************************************************************)
\* Client.getMediaTypeForLibraryType: the type code of the destination's API
getMediaTypeForLibraryType(libraryType) ==
    CASE libraryType = "movie" -> 1
      [] libraryType = "show" -> 2
      [] OTHER -> 1

\* Client.UpdateMediaField: the PUT request on /library/sections/<id>/all
UpdateMediaField(mediaID, libraryID, keywords, updateField, mediaType) ==
    [ request |-> "PUT", section |-> libraryID, id |-> mediaID,
      type |-> getMediaTypeForLibraryType(mediaType),
      field |-> updateField, keywords |-> keywords, locked |-> TRUE ]

\* Client.SetLabels
SetLabels(ratingKey, libraryID, labels) ==
    UpdateMediaField(ratingKey, libraryID, labels, "label", "movie")

\* Client.SetUserRating: the rating request carries no type code
SetUserRating(ratingKey, rating) ==
    [ request |-> "rate", id |-> ratingKey, rating |-> rating ]

\* the requests of one synchronization in order, and the fields whose
\* request failed
RatingStep(item, destRatingKey) ==
    IF item.userRating > 0 THEN << SetUserRating(destRatingKey, item.userRating) >> ELSE <<>>

LabelStep(item, destRatingKey, destLibraryID) ==
    IF Len(item.labels) > 0 THEN << SetLabels(destRatingKey, destLibraryID, item.labels) >>
    ELSE <<>>

GenreStep(item, destRatingKey, destLibraryID, mediaType) ==
    IF Len(item.genres) > 0
    THEN << UpdateMediaField(destRatingKey, destLibraryID, item.genres, "genre", mediaType) >>
    ELSE <<>>

FieldErrors(item, failed) ==
    (IF item.userRating > 0 /\ "rating" \in failed THEN << "user rating" >> ELSE <<>>)
    \o (IF Len(item.labels) > 0 /\ "label" \in failed THEN << "labels" >> ELSE <<>>)
    \o (IF Len(item.genres) > 0 /\ "genre" \in failed THEN << "genres" >> ELSE <<>>)

\* Synchronizer.syncEnhancedMovieMetadata
syncEnhancedMovieMetadata(sourceMovie, destRatingKey, destLibraryID, failed) ==
    [ requests |-> RatingStep(sourceMovie, destRatingKey)
                   \o LabelStep(sourceMovie, destRatingKey, destLibraryID)
                   \o GenreStep(sourceMovie, destRatingKey, destLibraryID, "movie"),
      err |-> IF FieldErrors(sourceMovie, failed) # <<>>
              THEN "enhanced movie metadata sync errors" ELSE "nil" ]

\* Synchronizer.syncEnhancedTVShowMetadata
syncEnhancedTVShowMetadata(sourceTVShow, destRatingKey, destLibraryID, failed) ==
    [ requests |-> RatingStep(sourceTVShow, destRatingKey)
                   \o LabelStep(sourceTVShow, destRatingKey, destLibraryID)
                   \o GenreStep(sourceTVShow, destRatingKey, destLibraryID, "show"),
      err |-> IF FieldErrors(sourceTVShow, failed) # <<>>
              THEN "enhanced TV show metadata sync errors" ELSE "nil" ]

\* the matched pairs: a source movie or show with or without rating, labels
\* and genres, and the requests the destination refuses
SynchronizerInputs ==
    [ kind : { "movie", "show" }, userRating : { 0, MinRatingUnits },
      labels : TagLists, genres : TagLists,
      failed : SUBSET { "rating", "label", "genre" } ]

SynchronizerInit ==
    /\ sIn \in SynchronizerInputs
    /\ sPc = "called"
    /\ sOut = [ requests |-> <<>>, err |-> "none" ]

\* no synchronization is under study
SynchronizerIdle ==
    /\ sIn = "none"
    /\ sPc = "off"
    /\ sOut = "none"

\* SyncEnhancedMetadata, the switch on the type of the source item; the
\* destination item has rating key "d1" in library "1"
SyncEnhancedItem ==
    /\ sPc = "called"
    /\ sOut' = IF sIn.kind = "movie"
               THEN syncEnhancedMovieMetadata(sIn, "d1", "1", sIn.failed)
               ELSE syncEnhancedTVShowMetadata(sIn, "d1", "1", sIn.failed)
    /\ sPc' = "returned"
    /\ UNCHANGED sIn
    /\ UNCHANGED exceptSync

(***************************************************************************)
(* The ssh client of the transfer layer, shared by main and RunContinuous  *)
(***************************************************************************)
\* the commands a sync cycle issues through executeCommand
MaxCommands == 4

CommandKinds == { "GetFileSize", "DeleteFile", "ListDirectoryContents", "CreateDirectory" }

\* main waits for the signal, the goroutine of RunContinuous is between two
\* commands, and no connection has been dialled yet
SessionInit ==
    /\ kMain = "waitSignal"
    /\ kLoop = "idle"
    /\ kClient = "nil"
    /\ kConnOpen = FALSE
    /\ kCmd = "none"
    /\ kIssued = 0
    /\ kFailed = 0

\* no ssh client is under study
SessionIdle ==
    /\ kMain = "off"
    /\ kLoop = "off"
    /\ kClient = "nil"
    /\ kConnOpen = FALSE
    /\ kCmd = "none"
    /\ kIssued = 0
    /\ kFailed = 0

\* executeCommand, up to session.Output: getSSHClient returns s.client or
\* dials and stores a connection when the field is nil, and a session for
\* the command is opened on it
ExecuteCommand ==
    /\ kLoop = "idle"
    /\ kIssued < MaxCommands
    /\ \E kind \in CommandKinds : kCmd' = kind
    /\ IF kClient = "nil"
       THEN kClient' = "set" /\ kConnOpen' = TRUE
       ELSE UNCHANGED <<kClient, kConnOpen>>
    /\ kLoop' = "command"
    /\ UNCHANGED <<kMain, kIssued, kFailed>>
    /\ UNCHANGED exceptSession

\* executeCommand: session.Output returns; it fails when the connection was
\* closed under the command
CommandReturns ==
    /\ kLoop = "command"
    /\ kLoop' = "idle"
    /\ kCmd' = "none"
    /\ kIssued' = kIssued + 1
    /\ kFailed' = IF kConnOpen THEN kFailed ELSE kFailed + 1
    /\ UNCHANGED <<kMain, kClient, kConnOpen>>
    /\ UNCHANGED exceptSession

\* main receives the signal and returns: its deferred function calls
\* SyncOrchestrator.Close, which calls sshClient.Close
SignalReceived ==
    /\ kMain = "waitSignal"
    /\ kMain' = "Close"
    /\ UNCHANGED <<kLoop, kClient, kConnOpen, kCmd, kIssued, kFailed>>
    /\ UNCHANGED exceptSession

\* sshClient.Close: if s.client != nil
CloseTest ==
    /\ kMain = "Close"
    /\ kMain' = IF kClient # "nil" THEN "client.Close" ELSE "return"
    /\ UNCHANGED <<kLoop, kClient, kConnOpen, kCmd, kIssued, kFailed>>
    /\ UNCHANGED exceptSession

\* sshClient.Close: err := s.client.Close()
CloseConnection ==
    /\ kMain = "client.Close"
    /\ kConnOpen' = FALSE
    /\ kMain' = "client = nil"
    /\ UNCHANGED <<kLoop, kClient, kCmd, kIssued, kFailed>>
    /\ UNCHANGED exceptSession

\* sshClient.Close: s.client = nil
CloseClearsField ==
    /\ kMain = "client = nil"
    /\ kClient' = "nil"
    /\ kMain' = "return"
    /\ UNCHANGED <<kLoop, kConnOpen, kCmd, kIssued, kFailed>>
    /\ UNCHANGED exceptSession

\* main returns from its deferred function: the process ends, and with it
\* the goroutine of RunContinuous
ProcessExits ==
    /\ kMain = "return"
    /\ kMain' = "exited"
    /\ kLoop' = "killed"
    /\ UNCHANGED <<kClient, kConnOpen, kCmd, kIssued, kFailed>>
    /\ UNCHANGED exceptSession

(***************************************************************************)
(* SCPTransfer.TransferFilesParallel                                       *)
(***************************************************************************)
\* NewSCPTransfer: "Allow up to 3 concurrent transfers"
maxConcurrent == 3

\* the most files handed to one call
MaxFiles == 4

\* no call is under study
ParallelIdle ==
    /\ qFiles = 0
    /\ qMain = "off"
    /\ qNext = 1
    /\ qG = <<>>
    /\ qSem = 0
    /\ qWg = 0
    /\ qErrs = <<>>
    /\ qFailed = {}
    /\ qRet = "none"

\* the call is entered with its files; no goroutine runs yet
ParallelInit ==
    /\ qFiles \in 0..MaxFiles
    /\ qMain = "call"
    /\ qNext = 1
    /\ qG = [ f \in 1..qFiles |-> "none" ]
    /\ qSem = 0
    /\ qWg = 0
    /\ qErrs = <<>>
    /\ qFailed = {}
    /\ qRet = "none"

\* if len(files) == 0 return nil; otherwise the channels are made and the
\* loop over the files starts
ParallelEnter ==
    /\ qMain = "call"
    /\ IF qFiles = 0
       THEN qMain' = "returned" /\ qRet' = "nil"
       ELSE qMain' = "loop" /\ qRet' = qRet
    /\ UNCHANGED <<qFiles, qNext, qG, qSem, qWg, qErrs, qFailed>>
    /\ UNCHANGED exceptParallel

\* one pass of the loop: wg.Add(1) and go func(f)
Spawn ==
    /\ qMain = "loop"
    /\ qNext <= qFiles
    /\ qWg' = qWg + 1
    /\ qG' = [ qG EXCEPT ![qNext] = "acquire" ]
    /\ qNext' = qNext + 1
    /\ UNCHANGED <<qFiles, qMain, qSem, qErrs, qFailed, qRet>>
    /\ UNCHANGED exceptParallel

\* a send on a semaphore that never blocks
SemaphoreHasRoom_Always(held) == TRUE

\* semaphore <- struct{}{} goes through when the channel of capacity
\* maxConcurrent is not full
SemaphoreHasRoom(held) == held < maxConcurrent

\* goroutine f: semaphore <- struct{}{}
Acquire(f) ==
    /\ qG[f] = "acquire"
    /\ SemaphoreHasRoom(qSem)
    /\ qSem' = qSem + 1
    /\ qG' = [ qG EXCEPT ![f] = "transfer" ]
    /\ UNCHANGED <<qFiles, qMain, qNext, qWg, qErrs, qFailed, qRet>>
    /\ UNCHANGED exceptParallel

\* goroutine f: s.TransferFile returns, with an error or without
TransferReturns(f) ==
    /\ qG[f] = "transfer"
    /\ \E ok \in BOOLEAN :
         /\ qG' = [ qG EXCEPT ![f] = IF ok THEN "release" ELSE "send" ]
         /\ qFailed' = IF ok THEN qFailed ELSE qFailed \cup { f }
    /\ UNCHANGED <<qFiles, qMain, qNext, qSem, qWg, qErrs, qRet>>
    /\ UNCHANGED exceptParallel

\* goroutine f: errChan <- err, on a channel of capacity len(files)
SendError(f) ==
    /\ qG[f] = "send"
    /\ Len(qErrs) < qFiles
    /\ qErrs' = Append(qErrs, f)
    /\ qG' = [ qG EXCEPT ![f] = "release" ]
    /\ UNCHANGED <<qFiles, qMain, qNext, qSem, qWg, qFailed, qRet>>
    /\ UNCHANGED exceptParallel

\* goroutine f, first deferred call to run: <-semaphore
Release(f) ==
    /\ qG[f] = "release"
    /\ qSem' = qSem - 1
    /\ qG' = [ qG EXCEPT ![f] = "wg.Done" ]
    /\ UNCHANGED <<qFiles, qMain, qNext, qWg, qErrs, qFailed, qRet>>
    /\ UNCHANGED exceptParallel

\* goroutine f, last deferred call to run: wg.Done()
Done(f) ==
    /\ qG[f] = "wg.Done"
    /\ qWg' = qWg - 1
    /\ qG' = [ qG EXCEPT ![f] = "done" ]
    /\ UNCHANGED <<qFiles, qMain, qNext, qSem, qErrs, qFailed, qRet>>
    /\ UNCHANGED exceptParallel

\* the loop is over: wg.Wait() returns when the counter is zero
Wait ==
    /\ qMain = "loop"
    /\ qNext > qFiles
    /\ qWg = 0
    /\ qMain' = "drain"
    /\ UNCHANGED <<qFiles, qNext, qG, qSem, qWg, qErrs, qFailed, qRet>>
    /\ UNCHANGED exceptParallel

\* close(errChan) and the loop over it: the first error in the channel is
\* returned, nil when it is empty
Drain ==
    /\ qMain = "drain"
    /\ qRet' = IF qErrs # <<>> THEN "error" ELSE "nil"
    /\ qMain' = "returned"
    /\ UNCHANGED <<qFiles, qNext, qG, qSem, qWg, qErrs, qFailed>>
    /\ UNCHANGED exceptParallel

(***************************************************************************)
(* Config.Validate                                                         *)
(***************************************************************************)
\* a string of the configuration: empty or set
Strings == { "", "x" }

LogLevels == { "DEBUG", "INFO", "WARN", "ERROR", "info" }

\* the configurations Validate is called on: every string empty or set, a
\* valid or an invalid log level, every performance setting at its minimum
\* or just below it
Configs ==
    [ sourceHost : Strings, sourceToken : Strings, destHost : Strings, destToken : Strings,
      syncLabel : Strings, sourceReplaceFrom : Strings, sourceReplaceTo : Strings,
      sshUser : Strings, sshPassword : Strings, destRootDir : Strings,
      logLevel : LogLevels,
      workerPoolSize : { 0, 1 }, plexAPIRateLimit : { 0, 1 },
      transferBufferSize : { 1023, 1024 }, maxConcurrentTransfers : { 0, 1 } ]

\* the required fields of Validate, in its order
RequiredFieldError_LabelOptional(c) ==
    IF c.sourceHost = "" THEN "SOURCE_PLEX_HOST is required"
    ELSE IF c.sourceToken = "" THEN "SOURCE_PLEX_TOKEN is required"
    ELSE IF c.destHost = "" THEN "DEST_PLEX_HOST is required"
    ELSE IF c.destToken = "" THEN "DEST_PLEX_TOKEN is required"
    ELSE "nil"

RequiredFieldError(c) ==
    IF c.sourceHost = "" THEN "SOURCE_PLEX_HOST is required"
    ELSE IF c.sourceToken = "" THEN "SOURCE_PLEX_TOKEN is required"
    ELSE IF c.destHost = "" THEN "DEST_PLEX_HOST is required"
    ELSE IF c.destToken = "" THEN "DEST_PLEX_TOKEN is required"
    ELSE IF c.syncLabel = "" THEN "SYNC_LABEL is required"
    ELSE "nil"

\* Config.Validate: the first complaint, or nil
Validate(c) ==
    LET sourceReplaceProvided == c.sourceReplaceFrom # "" \/ c.sourceReplaceTo # ""
        sourceBothProvided    == c.sourceReplaceFrom # "" /\ c.sourceReplaceTo # ""
        sshConfigured         == c.sshUser # "" /\ c.sshPassword # ""
    IN  IF RequiredFieldError(c) # "nil" THEN RequiredFieldError(c)
        ELSE IF sourceReplaceProvided /\ ~sourceBothProvided
        THEN "both SOURCE_REPLACE_FROM and SOURCE_REPLACE_TO must be provided"
        ELSE IF sshConfigured /\ c.destRootDir = ""
        THEN "DEST_ROOT_DIR is required when SSH is configured"
        ELSE IF c.logLevel \notin { "DEBUG", "INFO", "WARN", "ERROR" }
        THEN "invalid LOG_LEVEL"
        ELSE IF c.workerPoolSize < 1 THEN "WORKER_POOL_SIZE must be at least 1"
        ELSE IF c.plexAPIRateLimit <= 0 THEN "PLEX_API_RATE_LIMIT must be greater than 0"
        ELSE IF c.transferBufferSize < 1024 THEN "TRANSFER_BUFFER_SIZE must be at least 1KB"
        ELSE IF c.maxConcurrentTransfers < 1 THEN "MAX_CONCURRENT_TRANSFERS must be at least 1"
        ELSE "nil"

ValidateInit ==
    /\ vCfg \in Configs
    /\ vPc = "called"
    /\ vErr = "none"

\* no validation is under study
ValidateIdle ==
    /\ vCfg = "none"
    /\ vPc = "off"
    /\ vErr = "none"

\* err := cfg.Validate()
ValidateConfig ==
    /\ vPc = "called"
    /\ vErr' = Validate(vCfg)
    /\ vPc' = "returned"
    /\ UNCHANGED vCfg
    /\ UNCHANGED exceptValidate

(***************************************************************************)
(* One round trip of the path mapping                                      *)
(***************************************************************************)
MaxSuffixLen == 4

\* the values of SOURCE_REPLACE_FROM / SOURCE_REPLACE_TO / DEST_ROOT_DIR:
\* Validate accepts the two replacement roots only both set or both empty,
\* and checks nothing else about them
SourcePrefixes == { << "/", "s" >>, << "/", "s", "/" >> }
LocalRoots == { << "/", "l" >>, << "/", "l", "/" >>, << "l" >>, << ".", "/", "l" >> }
DestRoots == { << "/", "d" >>, << "/", "d", "/" >> }

PathConfigs ==
    { [ sourceReplaceFrom |-> f, sourceReplaceTo |-> t, destRootDir |-> d ] :
        f \in SourcePrefixes, t \in LocalRoots, d \in DestRoots }
    \cup { [ sourceReplaceFrom |-> <<>>, sourceReplaceTo |-> <<>>, destRootDir |-> d ] :
             d \in DestRoots }

\* the paths the source server may report: under the library root /s or
\* under another root
SourcePaths ==
    { r \o x : r \in { << "/", "s" >>, << "/", "x" >> },
               x \in SeqsUpTo({ "/", "a", "." }, MaxSuffixLen) }

PathImpls == { "transfer", "config" }

NoPath == [ ok |-> FALSE, path |-> <<>> ]

PathInit ==
    /\ pCfg \in PathConfigs
    /\ pImpl \in PathImpls
    /\ pSrc \in SourcePaths
    /\ pPc = "source"
    /\ pLocal = NoPath
    /\ pDest = NoPath

PathIdle ==
    /\ pCfg = [ sourceReplaceFrom |-> <<>>, sourceReplaceTo |-> <<>>, destRootDir |-> <<>> ]
    /\ pImpl = "transfer"
    /\ pSrc = <<>>
    /\ pPc = "off"
    /\ pLocal = NoPath
    /\ pDest = NoPath

\* localPath, err := MapSourcePathToLocal(sourcePath)
MapToLocal ==
    /\ pPc = "source"
    /\ pLocal' = mapSourcePathToLocal(pCfg, pSrc)
    /\ pPc' = "local"
    /\ UNCHANGED << pCfg, pImpl, pSrc, pDest >>
    /\ UNCHANGED exceptPath

\* destPath, err := MapLocalPathToDest(localPath), not called when the first
\* mapping failed
MapToDest ==
    /\ pPc = "local"
    /\ pDest' = IF ~pLocal.ok THEN NoPath
                ELSE IF pImpl = "config" THEN Config_MapLocalPathToDest(pCfg, pLocal.path)
                ELSE mapLocalPathToDest(pCfg, pLocal.path)
    /\ pPc' = "dest"
    /\ UNCHANGED << pCfg, pImpl, pSrc, pLocal >>
    /\ UNCHANGED exceptPath

\* os.ReadDir: the names of the files of a local directory, sorted
RECURSIVE ReadDir(_, _, _)
ReadDir(universe, fs, localDir) ==
    IF universe = <<>> THEN <<>>
    ELSE (IF Head(universe) \in fs /\ Dir(Head(universe)) = localDir
          THEN << Base(Head(universe)) >> ELSE <<>>)
         \o ReadDir(Tail(universe), fs, localDir)

RECURSIVE RelatedAmong(_, _, _, _)
RelatedAmong(entries, dir, prefix, filename) ==
    IF entries = <<>> THEN <<>>
    ELSE (IF HasPrefix(Head(entries), prefix \o << "." >>) /\ Head(entries) # filename
          THEN << Join(dir, Head(entries)) >> ELSE <<>>)
         \o RelatedAmong(Tail(entries), dir, prefix, filename)

\* findRelatedFiles: the main file, then the files of its directory that
\* share its name up to the first period
findRelatedFiles(mainFilePath, fs) ==
    LET dir      == Dir(mainFilePath)
        filename == Base(mainFilePath)
        dotIndex == Index(filename, ".")
        localDir == MapSourcePathToLocal(dir)
        entries  == ReadDir(LocalUniverse, fs, localDir.path)
    IN  IF dotIndex = 0 \/ ~localDir.ok \/ entries = <<>> THEN << mainFilePath >>
        ELSE << mainFilePath >>
             \o RelatedAmong(entries, dir, SubSeq(filename, 1, dotIndex - 1), filename)

\* extractMovieFilePaths / extractEpisodeFilePaths
RECURSIVE extractWithRelated(_, _)
extractWithRelated(files, fs) ==
    IF files = <<>> THEN <<>>
    ELSE (IF Head(files) # <<>> THEN findRelatedFiles(Head(files), fs) ELSE <<>>)
         \o extractWithRelated(Tail(files), fs)


(***************************************************************************)
(* Sync cycle: the phases of RunSyncCycle                                  *)
(***************************************************************************)
\* failures that a phase logs and survives: a library or an item that
\* discovery could not read; a file that was not transferred (no local file,
\* no mapping, a failed transfer, a show without its episodes); a listing or
\* a delete of the cleanup that failed; a status request, a trigger or a
\* refresh wait of the refresh that failed while another trigger was
\* accepted; a destination library or item the matcher could not read
DiscoverySkipped == "discovery: skipped"
TransferSkipped == "transfer: skipped"
CleanupFailed == "cleanup: failed"
RefreshPartial == "refresh: partial"
MatchingSkipped == "matching: skipped"

\* the labelled items of the source catalog in library order: a movie with
\* one media file and a show whose one episode has one media file
SourceCatalog ==
    << CatalogItem("movie", "s1", "1", "t", << File("s", "a", "m") >>),
       CatalogItem("show", "s2", "2", "t", <<>>) >>

\* GetAllTVShowEpisodes: the files of the episodes of a show
EpisodeFiles(ratingKey) == IF ratingKey = "s2" THEN << File("s", "b", "m") >> ELSE <<>>

\* what the destination catalog may hold
CycleDestCatalogs ==
    { <<>>,
      << CatalogItem("movie", "d1", "1", "other", << File("d", "a", "m") >>) >>,
      << CatalogItem("movie", "d1", "1", "other", << File("d", "z", "m") >>),
         CatalogItem("movie", "d2", "2", "t", << File("d", "a", "m") >>) >> }

\* DiscoverSyncableContent: the items of the libraries that answered, without
\* the items whose metadata could not be loaded
RECURSIVE DiscoverSyncableContent(_, _, _)
DiscoverSyncableContent(catalog, failedLibraries, failedLoads) ==
    IF catalog = <<>> THEN <<>>
    ELSE (IF Head(catalog).libraryID \notin failedLibraries
             /\ Head(catalog).ratingKey \notin failedLoads
          THEN << Head(catalog) >> ELSE <<>>)
         \o DiscoverSyncableContent(Tail(catalog), failedLibraries, failedLoads)

\* how one TransferFile call fares: the remote size query and the backend
XferEnvs == [ sizeCmdOk : BOOLEAN, backend : BackendOutcomes ]

TreeSize(tree, path) == IF path \in DOMAIN tree THEN tree[path] ELSE 0

\* a check of the local file that finds every file
IsNotExist_Never(localPath, fs) == FALSE

\* os.Stat(localPath) answers "does not exist"
IsNotExist(localPath, fs) == localPath \notin fs

\* a set that holds a path once its transfer has succeeded
TrackSynced_AfterSuccess(synced, destPath, ret) ==
    IF ret = "ok" THEN synced \cup { destPath } ELSE synced

\* s.syncedFiles[destPath] = true, before TransferFile is called: the value
\* TransferFile returns plays no part
TrackSynced(synced, destPath, ret) == synced \cup { destPath }

\* a loop over the file paths that a failed transfer ends
RECURSIVE transferFilePaths_StopAtFailure(_, _, _, _)
transferFilePaths_StopAtFailure(filePaths, fs, env, st) ==
    IF filePaths = <<>> THEN st
    ELSE
      LET sourcePath == Head(filePaths)
          local == MapSourcePathToLocal(sourcePath)
          dest  == MapLocalPathToDest(local.path)
          r == transferClient_TransferFile(
                 [ statOk |-> TRUE, localSize |-> LocalSize,
                   remoteSize |-> TreeSize(st.tree, dest.path),
                   existsCmdOk |-> TRUE, sizeCmdOk |-> env[sourcePath].sizeCmdOk,
                   mkdirCmdOk |-> TRUE, backend |-> env[sourcePath].backend ])
          copied == /\ r.calls # <<>>
                    /\ r.calls[Len(r.calls)] = "doTransferFile"
                    /\ env[sourcePath].backend = "transferred"
          next ==
            IF sourcePath = <<>> THEN st
            ELSE IF ~local.ok THEN [ st EXCEPT !.failures = @ \cup { TransferSkipped } ]
            ELSE IF IsNotExist(local.path, fs) THEN [ st EXCEPT !.failures = @ \cup { TransferSkipped } ]
            ELSE IF ~dest.ok THEN [ st EXCEPT !.failures = @ \cup { TransferSkipped } ]
            ELSE [ synced   |-> TrackSynced(st.synced, dest.path, r.ret),
                   tree     |-> IF copied
                                THEN [ q \in DOMAIN st.tree |->
                                         IF q = dest.path THEN LocalSize ELSE st.tree[q] ]
                                ELSE st.tree,
                   events   |-> Append(st.events,
                                 << "TransferFile", dest.path, r.ret, r.log,
                                    GetFileSize(TreeSize(st.tree, dest.path),
                                                env[sourcePath].sizeCmdOk).ok >>),
                   failures |-> st.failures \cup
                                (IF r.ret # "ok" THEN { TransferSkipped } ELSE {}),
                   err      |-> st.err ]
      IN  IF sourcePath # <<>> /\ local.ok /\ ~IsNotExist(local.path, fs) /\ dest.ok /\ r.ret # "ok"
          THEN next
          ELSE transferFilePaths_StopAtFailure(Tail(filePaths), fs, env, next)

\* the loop over the file paths of transferEnhancedItemFiles; st is the
\* orchestrator's and the destination's state, env[sourcePath] says how the
\* transfer of that file fares;
\* the event of a TransferFile call holds the destination path, the value
\* the call returned, the transfer events it logged and whether its remote
\* size query was answered
RECURSIVE transferFilePaths(_, _, _, _)
transferFilePaths(filePaths, fs, env, st) ==
    IF filePaths = <<>> THEN st
    ELSE
      LET sourcePath == Head(filePaths)
          local == MapSourcePathToLocal(sourcePath)
          dest  == MapLocalPathToDest(local.path)
          r == transferClient_TransferFile(
                 [ statOk |-> TRUE, localSize |-> LocalSize,
                   remoteSize |-> TreeSize(st.tree, dest.path),
                   existsCmdOk |-> TRUE, sizeCmdOk |-> env[sourcePath].sizeCmdOk,
                   mkdirCmdOk |-> TRUE, backend |-> env[sourcePath].backend ])
          copied == /\ r.calls # <<>>
                    /\ r.calls[Len(r.calls)] = "doTransferFile"
                    /\ env[sourcePath].backend = "transferred"
          next ==
            IF sourcePath = <<>> THEN st
            ELSE IF ~local.ok THEN [ st EXCEPT !.failures = @ \cup { TransferSkipped } ]
            ELSE IF IsNotExist(local.path, fs) THEN [ st EXCEPT !.failures = @ \cup { TransferSkipped } ]
            ELSE IF ~dest.ok THEN [ st EXCEPT !.failures = @ \cup { TransferSkipped } ]
            ELSE [ synced   |-> TrackSynced(st.synced, dest.path, r.ret),
                   tree     |-> IF copied
                                THEN [ q \in DOMAIN st.tree |->
                                         IF q = dest.path THEN LocalSize ELSE st.tree[q] ]
                                ELSE st.tree,
                   events   |-> Append(st.events,
                                 << "TransferFile", dest.path, r.ret, r.log,
                                    GetFileSize(TreeSize(st.tree, dest.path),
                                                env[sourcePath].sizeCmdOk).ok >>),
                   failures |-> st.failures \cup
                                (IF r.ret # "ok" THEN { TransferSkipped } ELSE {}),
                   err      |-> st.err ]
      IN  transferFilePaths(Tail(filePaths), fs, env, next)

\* the file paths transferEnhancedItemFiles works on
ItemFilePaths(item, fs) ==
    IF item.kind = "show" THEN extractWithRelated(EpisodeFiles(item.ratingKey), fs)
    ELSE IF item.kind \in { "movie", "episode" } THEN extractWithRelated(item.files, fs)
    ELSE <<>>

\* transferEnhancedItemFiles
transferEnhancedItemFiles(item, fs, episodesOk, env, st) ==
    IF item.kind = "show" /\ ~episodesOk
    THEN [ st EXCEPT !.failures = @ \cup { TransferSkipped },
                     !.err = "failed to get episodes" ]
    ELSE transferFilePaths(ItemFilePaths(item, fs), fs, env, st)

\* the transfer loop of RunSyncCycle is over
LoopDone_AfterFirstItem(i, items) == i > 1

LoopDone(i, items) == i > Len(items)

\* ListDirectoryContents: find's output for the root; the ssh client answers
\* an empty listing when its commands fail, the other backends an error
ListDirectoryContents(tree, outcome) ==
    IF outcome = "ok"
    THEN [ ok |-> TRUE, files |-> FilterSeq(DestUniverse, { q \in DOMAIN tree : tree[q] # 0 }) ]
    ELSE IF outcome = "empty" THEN [ ok |-> TRUE, files |-> <<>> ]
    ELSE [ ok |-> FALSE, files |-> <<>> ]

ListOutcomes == { "ok", "empty", "error" }

\* the destination files the cleanup issues a delete for
Orphans_SyncedToo(listing, synced) == listing

Orphans(listing, synced) == FilterSeq(listing, Range(listing) \ synced)

RECURSIVE DeleteEvents(_)
DeleteEvents(paths) ==
    IF paths = <<>> THEN <<>>
    ELSE << << "DeleteFile", Head(paths) >> >> \o DeleteEvents(Tail(paths))

\* the orphans up to the first one whose delete fails
RECURSIVE UpToFirstFailed(_, _)
UpToFirstFailed(paths, failedDeletes) ==
    IF paths = <<>> THEN <<>>
    ELSE IF Head(paths) \in failedDeletes THEN << Head(paths) >>
    ELSE << Head(paths) >> \o UpToFirstFailed(Tail(paths), failedDeletes)

\* a cleanup that a failed delete ends
cleanupOrphanedFiles_StopAtFailedDelete(st, listOutcome, failedDeletes) ==
    LET listing == ListDirectoryContents(st.tree, listOutcome)
        orphans == UpToFirstFailed(Orphans(listing.files, st.synced), failedDeletes)
        deleted == Range(orphans) \ failedDeletes
    IN  IF destRootDir = <<>> THEN [ st EXCEPT !.listing = <<>> ]
        ELSE IF ~listing.ok
        THEN [ st EXCEPT !.listing = <<>>,
                         !.events = Append(@, << "ListDirectoryContents", destRootDir, "error" >>),
                         !.failures = @ \cup { CleanupFailed } ]
        ELSE [ synced   |-> st.synced,
               listing  |-> listing.files,
               tree     |-> [ q \in DOMAIN st.tree |-> IF q \in deleted THEN 0 ELSE st.tree[q] ],
               events   |-> Append(st.events, << "ListDirectoryContents", destRootDir, "nil" >>)
                            \o DeleteEvents(orphans),
               failures |-> st.failures \cup
                            (IF Range(orphans) \cap failedDeletes # {}
                             THEN { CleanupFailed } ELSE {}) ]

\* cleanupOrphanedFiles; failedDeletes are the paths whose delete fails; the
\* event of the listing holds the error it returned
cleanupOrphanedFiles(st, listOutcome, failedDeletes) ==
    LET listing == ListDirectoryContents(st.tree, listOutcome)
        orphans == Orphans(listing.files, st.synced)
        deleted == Range(orphans) \ failedDeletes
    IN  IF destRootDir = <<>> THEN [ st EXCEPT !.listing = <<>> ]
        ELSE IF ~listing.ok
        THEN [ st EXCEPT !.listing = <<>>,
                         !.events = Append(@, << "ListDirectoryContents", destRootDir, "error" >>),
                         !.failures = @ \cup { CleanupFailed } ]
        ELSE [ synced   |-> st.synced,
               listing  |-> listing.files,
               tree     |-> [ q \in DOMAIN st.tree |-> IF q \in deleted THEN 0 ELSE st.tree[q] ],
               events   |-> Append(st.events, << "ListDirectoryContents", destRootDir, "nil" >>)
                            \o DeleteEvents(orphans),
               failures |-> st.failures \cup
                            (IF Range(orphans) \cap failedDeletes # {}
                             THEN { CleanupFailed } ELSE {}) ]


(***************************************************************************)
(* One call of DiscoverSyncableContent                                     *)
(***************************************************************************)
\* the labelled items the source catalog may hold, by library and in the
\* order of the server's response
ItemPool ==
    << CatalogItem("movie", "s1", "1", "t", << File("s", "a", "m") >>),
       CatalogItem("movie", "s3", "1", "u", << File("s", "z", "m") >>),
       CatalogItem("show", "s2", "2", "t", <<>>),
       CatalogItem("movie", "s4", "2", "u", << File("s", "b", "m") >>) >>

DiscoveryCatalogs == { FilterSeq(ItemPool, keep) : keep \in SUBSET Range(ItemPool) }

SourceLibraryKeys == << "1", "2" >>

\* a client that has no fallback
GetItemsWithLabel_NoFallback(directOk, clientSideOk) == directOk

\* Client.GetItemsWithLabel: the server-side filter, and the client-side
\* filter when that fails; TRUE when it returns the labelled items
GetItemsWithLabel(directOk, clientSideOk) == IF directOk THEN TRUE ELSE clientSideOk

\* the libraries whose GetItemsWithLabel returns an error
LibrariesFailed(directFailed, clientSideFailed) ==
    { l \in Range(SourceLibraryKeys) :
        ~GetItemsWithLabel(l \notin directFailed, l \notin clientSideFailed) }

DiscoveryInputs ==
    [ catalog : DiscoveryCatalogs, librariesOk : BOOLEAN,
      directFailed : SUBSET Range(SourceLibraryKeys),
      clientSideFailed : SUBSET Range(SourceLibraryKeys),
      failedLoads : SUBSET { ItemPool[i].ratingKey : i \in DOMAIN ItemPool } ]

DiscoverInit ==
    /\ dIn \in DiscoveryInputs
    /\ dPc = "called"
    /\ dOut = [ err |-> "none", items |-> <<>> ]

\* no discovery is under study
DiscoverIdle ==
    /\ dIn = "none"
    /\ dPc = "off"
    /\ dOut = "none"

\* itemsToSync, err := DiscoverSyncableContent()
DiscoverContent ==
    /\ dPc = "called"
    /\ dOut' = IF ~dIn.librariesOk
               THEN [ err |-> "failed to get libraries", items |-> <<>> ]
               ELSE [ err |-> "nil",
                      items |-> DiscoverSyncableContent(
                                  dIn.catalog,
                                  LibrariesFailed(dIn.directFailed, dIn.clientSideFailed),
                                  dIn.failedLoads) ]
    /\ dPc' = "returned"
    /\ UNCHANGED dIn
    /\ UNCHANGED exceptDiscover

(***************************************************************************)
(* Sync cycle: library refresh (LibraryManager.TriggerRefreshAndWait)      *)
(***************************************************************************)
RECURSIVE TriggerEvents(_, _)
TriggerEvents(request, libraries) ==
    IF libraries = <<>> THEN <<>>
    ELSE << << request, Head(libraries) >> >> \o TriggerEvents(request, Tail(libraries))

\* waitForAllScansComplete: nil when a poll sees no scan in progress before
\* the ceiling of 10 minutes, an error when the ceiling passes first
waitForAllScansComplete_NoCeiling(scansFinish) == "nil"

waitForAllScansComplete(scansFinish) == IF scansFinish THEN "nil" ELSE "timeout"

\* what the destination catalog answers during one refresh: the status
\* request before the scans, the library listing, the libraries that accept
\* a scan and a refresh trigger, whether the scans end before the ceiling,
\* whether the refreshes end before theirs.  Without a listing or without an
\* accepted scan there is nothing further to answer.
RefreshEnvs ==
    { e \in [ existingOk : BOOLEAN, librariesOk : BOOLEAN,
              scanOk : SUBSET Range(DestLibraryKeys), scansFinish : BOOLEAN,
              refreshOk : SUBSET Range(DestLibraryKeys), refreshFinish : BOOLEAN ] :
        /\ ~e.librariesOk => e.scanOk = {}
        /\ e.scanOk = {} => e.scansFinish /\ e.refreshOk = {}
        /\ e.refreshOk = {} => e.refreshFinish }

\* what went wrong at the destination catalog during a refresh
RefreshFailures(e) ==
    (IF ~e.existingOk THEN { RefreshPartial } ELSE {})
    \cup
    (IF ~e.librariesOk THEN { "refresh: GetLibraries" }
     ELSE IF e.scanOk = {} THEN { "refresh: no scan trigger" }
     ELSE (IF e.scanOk # Range(DestLibraryKeys) THEN { RefreshPartial } ELSE {})
          \cup
          (IF ~e.scansFinish THEN { "refresh: scan timeout" }
           ELSE IF e.refreshOk = {} THEN { "refresh: no refresh trigger" }
           ELSE IF e.refreshOk # Range(DestLibraryKeys) \/ ~e.refreshFinish
           THEN { RefreshPartial } ELSE {}))

\* TriggerRefreshAndWait: its result and the triggers it issued
TriggerRefreshAndWait(e) ==
    LET scans    == TriggerEvents("TriggerLibraryScan", DestLibraryKeys)
        refreshs == TriggerEvents("TriggerMetadataRefresh", DestLibraryKeys)
    IN  IF ~e.librariesOk
        THEN [ err |-> "failed to get destination libraries", events |-> <<>> ]
        ELSE IF e.scanOk = {}
        THEN [ err |-> "failed to trigger any library scans", events |-> scans ]
        ELSE IF waitForAllScansComplete(e.scansFinish) # "nil"
        THEN [ err |-> "library scan failed", events |-> scans ]
        ELSE IF e.refreshOk = {}
        THEN [ err |-> "failed to trigger any metadata refreshes",
               events |-> scans \o refreshs ]
        ELSE [ err |-> "nil", events |-> scans \o refreshs ]

(***************************************************************************)
(* Sync cycle: RunSyncCycle step by step                                   *)
(***************************************************************************)
\* the destination root before the cycle: /d/a.m absent, complete or stale,
\* the stray /d/z.m absent or present
DestTrees ==
    { [ q \in Range(DestUniverse) |->
          IF q = File("d", "a", "m") THEN a
          ELSE IF q = File("d", "z", "m") THEN z ELSE 0 ] :
        a \in { 0, LocalSize, StaleSize }, z \in { 0, LocalSize } }

EmptyTree == [ q \in Range(DestUniverse) |-> 0 ]

\* the local filesystem: every file, the media files only, the episode's
\* media file only, or the movie's companion file only; without a backend the
\* filesystems play no part
LocalFilesystems ==
    { Range(LocalUniverse),
      { File("l", "a", "m"), File("l", "b", "m") },
      { File("l", "b", "m") },
      { File("l", "a", "s") } }

CycleInit ==
    /\ pc = "preflight"
    /\ hasTransfer \in BOOLEAN
    /\ itemsToSync = <<>>
    /\ xferIdx = 1
    /\ errorCount = 0
    /\ syncedFiles = {}
    /\ localFs \in (IF hasTransfer THEN LocalFilesystems ELSE { {} })
    /\ destTree \in (IF hasTransfer THEN DestTrees ELSE { EmptyTree })
    /\ destFiles = <<>>
    /\ events = <<>>
    /\ failures = {}
    /\ result = "none"
    /\ mSource = <<>>
    /\ mDest \in CycleDestCatalogs
    /\ mPc = "off"
    /\ mMatches = <<>>
    /\ mErr = FALSE
    /\ mLoaded = <<>>
    /\ mCompared = <<>>
    /\ mWrites = <<>>
    /\ mCounts = << 0, 0, 0 >>

\* no sync cycle is under study
CycleIdle ==
    /\ pc = "off"
    /\ hasTransfer = FALSE
    /\ itemsToSync = <<>>
    /\ xferIdx = 1
    /\ errorCount = 0
    /\ syncedFiles = {}
    /\ localFs = {}
    /\ destTree = <<>>
    /\ destFiles = <<>>
    /\ events = <<>>
    /\ failures = {}
    /\ result = "none"

\* a cycle that transfers without a backend
PhaseAfterDiscovery_AlwaysTransfer(transferConfigured) == "transfer"

\* if s.fileTransfer != nil: phases 3, 3.5 and 4 run only with a backend,
\* otherwise phase 5 follows the discovery
PhaseAfterDiscovery(transferConfigured) == IF transferConfigured THEN "transfer" ELSE "match"

\* a transfer phase that goes on with the set of the run before
ResetSyncedFiles_Kept(synced) == synced

\* s.syncedFiles = make(map[string]bool), the first statement of phase 3
ResetSyncedFiles(synced) == {}

\* a pre-flight check whose failure is recorded without ending the cycle
Preflight_FailureIgnored ==
    /\ pc = "preflight"
    /\ \E reachable \in BOOLEAN :
         IF reachable
         THEN /\ pc' = "discover"
              /\ UNCHANGED <<failures, result>>
         ELSE /\ pc' = "discover"
              /\ failures' = failures \cup { "pre-flight: TestConnection" }
              /\ result' = "destination server unavailable"
    /\ UNCHANGED <<hasTransfer, itemsToSync, xferIdx, errorCount, syncedFiles, localFs, destTree,
                   destFiles, events>>
    /\ UNCHANGED <<matchVars, exceptCycle>>

\* pre-flight: TestConnection of the destination
Preflight ==
    /\ pc = "preflight"
    /\ \E reachable \in BOOLEAN :
         IF reachable
         THEN /\ pc' = "discover"
              /\ UNCHANGED <<failures, result>>
         ELSE /\ pc' = "done"
              /\ failures' = failures \cup { "pre-flight: TestConnection" }
              /\ result' = "destination server unavailable"
    /\ UNCHANGED <<hasTransfer, itemsToSync, xferIdx, errorCount, syncedFiles, localFs, destTree,
                   destFiles, events>>
    /\ UNCHANGED <<matchVars, exceptCycle>>

\* a cycle that goes on with an empty list of items
NothingToSync_Never(items) == FALSE

\* RunSyncCycle: len(itemsToSync) == 0, "No items found for synchronization"
NothingToSync(items) == Len(items) = 0

\* phases 1 and 2: discovery; with a backend configured the set of synced
\* files is emptied for the cycle
Discover ==
    /\ pc = "discover"
    /\ \E librariesOk \in BOOLEAN :
       \E failedLibraries \in (IF librariesOk THEN SUBSET { "1", "2" } ELSE { {} }) :
       \E failedLoads \in (IF librariesOk
                           THEN SUBSET { SourceCatalog[i].ratingKey : i \in DOMAIN SourceCatalog }
                           ELSE { {} }) :
         LET found == DiscoverSyncableContent(SourceCatalog, failedLibraries, failedLoads)
             met   == IF failedLibraries # {} \/ failedLoads # {}
                      THEN { DiscoverySkipped } ELSE {}
         IN  IF ~librariesOk
             THEN /\ pc' = "done"
                  /\ result' = "content discovery failed"
                  /\ failures' = failures \cup { "discovery: GetLibraries" }
                  /\ UNCHANGED <<itemsToSync, syncedFiles>>
             ELSE /\ itemsToSync' = found
                  /\ syncedFiles' = IF ~NothingToSync(found) /\ hasTransfer
                                    THEN ResetSyncedFiles(syncedFiles) ELSE syncedFiles
                  /\ failures' = failures \cup met
                  /\ pc' = IF NothingToSync(found) THEN "done"
                           ELSE PhaseAfterDiscovery(hasTransfer)
                  /\ result' = IF NothingToSync(found) THEN "nil" ELSE result
    /\ UNCHANGED <<hasTransfer, xferIdx, errorCount, localFs, destTree, destFiles, events>>
    /\ UNCHANGED <<matchVars, exceptCycle>>

\* the files whose transfer the environment decides on for an item, and the
\* ways it may decide: rsync finds a file up to date only when it is
EnvsFor(filePaths) ==
    { env \in [ Range(filePaths) -> XferEnvs ] :
        \A q \in Range(filePaths) :
            env[q].backend = "uptodate" =>
                TreeSize(destTree, MapLocalPathToDest(MapSourcePathToLocal(q).path).path)
                    = LocalSize }

\* phase 3: one iteration of the transfer loop
TransferItem ==
    /\ pc = "transfer"
    /\ ~LoopDone(xferIdx, itemsToSync)
    /\ LET item == itemsToSync[xferIdx]
       IN  \E episodesOk \in (IF item.kind = "show" THEN BOOLEAN ELSE { TRUE }) :
           \E env \in (IF episodesOk THEN EnvsFor(ItemFilePaths(item, localFs))
                       ELSE { << >> }) :
             LET st == transferEnhancedItemFiles(item, localFs, episodesOk, env,
                          [ synced |-> syncedFiles, tree |-> destTree,
                            events |-> events, failures |-> failures, err |-> "nil" ])
             IN  /\ errorCount' = IF st.err # "nil" THEN errorCount + 1 ELSE errorCount
                 /\ syncedFiles' = st.synced
                 /\ destTree' = st.tree
                 /\ events' = st.events
                 /\ failures' = st.failures
    /\ xferIdx' = xferIdx + 1
    /\ UNCHANGED <<pc, hasTransfer, itemsToSync, localFs, destFiles, result>>
    /\ UNCHANGED <<matchVars, exceptCycle>>

\* phase 3.5: cleanupOrphanedFiles, once the transfer loop is over; its
\* error is only logged
Cleanup ==
    /\ pc = "transfer"
    /\ LoopDone(xferIdx, itemsToSync)
    /\ \E listOutcome \in ListOutcomes :
       \E failedDeletes \in (IF listOutcome = "ok"
                             THEN SUBSET { q \in DOMAIN destTree :
                                             destTree[q] # 0 /\ q \notin syncedFiles }
                             ELSE { {} }) :
         LET st == cleanupOrphanedFiles(
                      [ synced |-> syncedFiles, listing |-> <<>>, tree |-> destTree,
                        events |-> events, failures |-> failures ],
                      listOutcome, failedDeletes)
         IN  /\ destFiles' = st.listing
             /\ destTree' = st.tree
             /\ events' = st.events
             /\ failures' = st.failures
    /\ pc' = "refresh"
    /\ UNCHANGED <<hasTransfer, itemsToSync, xferIdx, errorCount, syncedFiles, localFs, result>>
    /\ UNCHANGED <<matchVars, exceptCycle>>

\* phase 4: TriggerRefreshAndWait; its error ends the cycle
Refresh ==
    /\ pc = "refresh"
    /\ \E e \in RefreshEnvs :
         LET r == TriggerRefreshAndWait(e)
         IN  /\ events' = events \o r.events
             /\ failures' = failures \cup RefreshFailures(e)
             /\ pc' = IF r.err = "nil" THEN "match" ELSE "done"
             /\ result' = IF r.err = "nil" THEN result ELSE "library refresh failed"
    /\ UNCHANGED <<hasTransfer, itemsToSync, xferIdx, errorCount, syncedFiles, localFs, destTree, destFiles>>
    /\ UNCHANGED <<matchVars, exceptCycle>>

\* phase 5: MatchItemsByFilename on the discovered items; its error ends the
\* cycle
MatchPhase ==
    /\ pc = "match"
    /\ \E librariesOk \in BOOLEAN :
       \E failedLibraries \in (IF librariesOk THEN SUBSET Range(DestLibraryKeys) ELSE { {} }) :
       \E failedLoads \in (IF librariesOk
                            THEN SUBSET { mDest[i].ratingKey : i \in { j \in DOMAIN mDest :
                                              mDest[j].libraryID \notin failedLibraries } }
                            ELSE { {} }) :
         LET r == MatchItemsByFilename(itemsToSync, mDest, librariesOk, failedLibraries,
                                       failedLoads)
         IN  /\ mSource' = itemsToSync
             /\ mErr' = r.err
             /\ mLoaded' = r.loaded
             /\ mMatches' = r.matches
             /\ mPc' = IF r.err THEN "failed" ELSE "matched"
             /\ pc' = IF r.err THEN "done" ELSE "metadata"
             /\ result' = IF r.err THEN "content matching failed" ELSE result
             /\ failures' = failures
                  \cup (IF ~librariesOk THEN { "matching: GetLibraries" } ELSE {})
                  \cup (IF failedLibraries # {} \/ failedLoads # {}
                        THEN { MatchingSkipped } ELSE {})
    /\ UNCHANGED <<mDest, mCompared, mWrites, mCounts>>
    /\ UNCHANGED <<hasTransfer, itemsToSync, xferIdx, errorCount, syncedFiles, localFs, destTree,
                   destFiles, events>>
    /\ UNCHANGED exceptCycle

\* phase 6: syncAllMetadata on the matches, when there are any; the cycle
\* returns nil
MetadataPhase ==
    /\ pc = "metadata"
    /\ LET r == IF Len(mMatches) > 0 THEN syncAllMetadata(mMatches, NoMetadataRun)
                ELSE NoMetadataRun
       IN  /\ mCompared' = r.compared
           /\ mWrites' = r.writes
           /\ mCounts' = << r.success, r.errors, r.skipped >>
    /\ mPc' = "done"
    /\ pc' = "done"
    /\ result' = "nil"
    /\ UNCHANGED <<mSource, mDest, mMatches, mErr, mLoaded>>
    /\ UNCHANGED <<hasTransfer, itemsToSync, xferIdx, errorCount, syncedFiles, localFs, destTree,
                   destFiles, events, failures>>
    /\ UNCHANGED exceptCycle


(***************************************************************************)
(* Library refresh poll by poll (LibraryManager.TriggerRefreshAndWait)     *)
(***************************************************************************)
\* seconds: the ceilings and the sleeps of the three waits
maxExistingWaitTime == 300
ExistingSleep == 10
maxWaitTime == 600
pollInterval == 5
RefreshMaxWaitTime == 1800
checkInterval == 15

\* the longest a status request takes, in seconds
MaxCallDelay == 2

CallDelays == { 0, MaxCallDelay }

\* the libraries the destination may have
MaxLibraries == 2

LibraryLists == { [ i \in 1..n |-> ToString(i) ] : n \in 0..MaxLibraries }

\* the destination catalog the cycle works against: a copy of the movie and an
\* item of another file
StartCatalog ==
    << CatalogItem("movie", "d1", "1", "other", << File("d", "z", "m") >>),
       CatalogItem("movie", "d2", "2", "t", << File("d", "a", "m") >>) >>

\* the state of the cycle when it reaches phase 4: both items were
\* discovered, none of their files exists locally, and the cleanup listed an
\* empty destination root
AtRefresh ==
    cleanupOrphanedFiles(
        [ synced |-> {}, listing |-> <<>>, tree |-> EmptyTree, events |-> <<>>,
          failures |-> { TransferSkipped } ],
        "ok", {})

RefreshInit ==
    /\ rPc = "entry"
    /\ rElapsed = 0
    /\ rBusy \in BOOLEAN
    /\ rLibs \in LibraryLists
    /\ rScanned = {}
    /\ rRefreshed = {}
    /\ rEntry = "none"
    /\ rExit = "none"
    /\ rStatus = "none"
    /\ rErr = "none"
    /\ pc = "refresh"
    /\ hasTransfer = TRUE
    /\ itemsToSync = SourceCatalog
    /\ xferIdx = Len(SourceCatalog) + 1
    /\ errorCount = 0
    /\ syncedFiles = AtRefresh.synced
    /\ localFs = {}
    /\ destTree = AtRefresh.tree
    /\ destFiles = AtRefresh.listing
    /\ events = AtRefresh.events
    /\ failures = AtRefresh.failures
    /\ result = "none"
    /\ mSource = <<>>
    /\ mDest = StartCatalog
    /\ mPc = "off"
    /\ mMatches = <<>>
    /\ mErr = FALSE
    /\ mLoaded = <<>>
    /\ mCompared = <<>>
    /\ mWrites = <<>>
    /\ mCounts = << 0, 0, 0 >>

\* no refresh is under study
RefreshIdle ==
    /\ rPc = "off"
    /\ rElapsed = 0
    /\ rBusy = FALSE
    /\ rLibs = <<>>
    /\ rScanned = {}
    /\ rRefreshed = {}
    /\ rEntry = "none"
    /\ rExit = "none"
    /\ rStatus = "none"
    /\ rErr = "none"

\* waitForExistingScansComplete, the check before its loop: an error of the
\* status request is returned (TriggerRefreshAndWait warns and goes on), no
\* scan in progress returns nil, otherwise the loop starts
ExistingCheck ==
    /\ rPc = "entry"
    /\ \E statusOk \in BOOLEAN :
         IF ~statusOk THEN rPc' = "libraries" /\ rEntry' = "status error"
         ELSE IF ~rBusy THEN rPc' = "libraries" /\ rEntry' = "clear"
         ELSE rPc' = "existing" /\ rEntry' = rEntry
    /\ UNCHANGED <<rElapsed, rBusy, rLibs, rScanned, rRefreshed, rExit, rStatus, rErr>>
    /\ UNCHANGED <<cycleVars, matchVars, exceptRefresh>>

\* time.Sleep(duration), called at time now: the time it returns at
Sleep(now, duration) == now + duration

\* time.Since(startTime) > maxExistingWaitTime
ExistingWaitExpired_AtOnce(elapsed) == TRUE
ExistingWaitExpired(elapsed) == elapsed > maxExistingWaitTime

\* waitForExistingScansComplete, one pass of its loop
ExistingPoll ==
    /\ rPc = "existing"
    /\ IF ExistingWaitExpired(rElapsed)
       THEN rPc' = "libraries" /\ rEntry' = "timeout" /\ rElapsed' = rElapsed
       ELSE \E statusOk \in BOOLEAN : \E d \in CallDelays :
              IF ~statusOk
              THEN rPc' = "libraries" /\ rEntry' = "status error" /\ rElapsed' = rElapsed + d
              ELSE IF ~rBusy
              THEN rPc' = "libraries" /\ rEntry' = "clear" /\ rElapsed' = rElapsed + d
              ELSE rPc' = rPc /\ rEntry' = rEntry /\ rElapsed' = Sleep(rElapsed + d, ExistingSleep)
    /\ UNCHANGED <<rBusy, rLibs, rScanned, rRefreshed, rExit, rStatus, rErr>>
    /\ UNCHANGED <<cycleVars, matchVars, exceptRefresh>>

\* len(successfulScans) == 0
NoneTriggered_Ignored(successful) == FALSE
NoneTriggered(successful) == successful = {}

\* GetLibraries and the scan trigger of every library
TriggerScans ==
    /\ rPc = "libraries"
    /\ \E librariesOk \in BOOLEAN :
       \E successfulScans \in (IF librariesOk THEN SUBSET Range(rLibs) ELSE { {} }) :
       \E busy \in BOOLEAN :
         IF ~librariesOk
         THEN /\ rPc' = "returned"
              /\ rErr' = "failed to get destination libraries"
              /\ UNCHANGED <<events, rScanned, rBusy>>
         ELSE /\ events' = events \o TriggerEvents("TriggerLibraryScan", rLibs)
              /\ rScanned' = successfulScans
              /\ IF NoneTriggered(successfulScans)
                 THEN /\ rPc' = "returned"
                      /\ rErr' = "failed to trigger any library scans"
                      /\ UNCHANGED rBusy
                 ELSE /\ rPc' = "scanWait"
                      /\ rErr' = rErr
                      /\ rBusy' = busy
    /\ rElapsed' = 0
    /\ UNCHANGED <<rLibs, rRefreshed, rEntry, rExit, rStatus>>
    /\ UNCHANGED <<pc, hasTransfer, itemsToSync, xferIdx, errorCount, syncedFiles, localFs, destTree,
                   destFiles, failures, result>>
    /\ UNCHANGED <<matchVars, exceptRefresh>>

\* a wait without a ceiling
ScanWaitExpired_Never(elapsed) == FALSE

\* time.Since(startTime) > maxWaitTime in waitForAllScansComplete
ScanWaitExpired(elapsed) == elapsed > maxWaitTime

\* what waitForAllScansComplete returns past its ceiling
ScanWaitTimeout_Nil == "nil"
ScanWaitTimeout == "library scan monitoring timed out"

\* a wait that a failed status request ends like an idle destination
ScansComplete_OnError(statusOk, scanInProgress) == ~statusOk \/ ~scanInProgress

\* waitForAllScansComplete: the status request succeeded and reported no
\* scan in progress ("All library scans completed successfully")
ScansComplete(statusOk, scanInProgress) == statusOk /\ ~scanInProgress

\* waitForAllScansComplete, one pass of its loop: past the ceiling an error
\* (TriggerRefreshAndWait returns "library scan failed" on it), a failed
\* status request sleeps and goes on, no scan in progress ends the wait
ScanPoll ==
    /\ rPc = "scanWait"
    /\ IF ScanWaitExpired(rElapsed)
       THEN /\ IF ScanWaitTimeout # "nil"
               THEN rPc' = "returned" /\ rErr' = "library scan failed" /\ rElapsed' = 0
               ELSE rPc' = "refreshTrigger" /\ rErr' = rErr /\ rElapsed' = 0
            /\ rStatus' = rStatus
       ELSE \E statusOk \in BOOLEAN : \E d \in CallDelays :
              /\ rStatus' = IF ~statusOk THEN "error" ELSE IF rBusy THEN "busy" ELSE "idle"
              /\ IF ScansComplete(statusOk, rBusy)
                 THEN rPc' = "refreshTrigger" /\ rErr' = rErr /\ rElapsed' = 0
                 ELSE rPc' = rPc /\ rErr' = rErr
                      /\ rElapsed' = Sleep(rElapsed + d, pollInterval)
    /\ UNCHANGED <<rBusy, rLibs, rScanned, rRefreshed, rEntry, rExit>>
    /\ UNCHANGED <<cycleVars, matchVars, exceptRefresh>>

\* len(successfulMetadataRefresh) == 0
NoneRefreshed_Ignored(successful) == FALSE
NoneRefreshed(successful) == successful = {}

\* the metadata refresh trigger of every library
TriggerRefreshes ==
    /\ rPc = "refreshTrigger"
    /\ \E successfulMetadataRefresh \in SUBSET Range(rLibs) : \E busy \in BOOLEAN :
         /\ events' = events \o TriggerEvents("TriggerMetadataRefresh", rLibs)
         /\ rRefreshed' = successfulMetadataRefresh
         /\ IF NoneRefreshed(successfulMetadataRefresh)
            THEN /\ rPc' = "returned"
                 /\ rErr' = "failed to trigger any metadata refreshes"
                 /\ UNCHANGED rBusy
            ELSE /\ rPc' = "refreshWait"
                 /\ rErr' = rErr
                 /\ rBusy' = busy
    /\ rElapsed' = 0
    /\ UNCHANGED <<rLibs, rScanned, rEntry, rExit, rStatus>>
    /\ UNCHANGED <<pc, hasTransfer, itemsToSync, xferIdx, errorCount, syncedFiles, localFs, destTree,
                   destFiles, failures, result>>
    /\ UNCHANGED <<matchVars, exceptRefresh>>

\* time.Since(startTime) > maxWaitTime in waitForAllMetadataRefreshComplete
RefreshWaitExpired(elapsed) == elapsed > RefreshMaxWaitTime

\* what waitForAllMetadataRefreshComplete returns at its timeout
RefreshTimeout_Fatal == "metadata refresh timed out"
RefreshTimeout == "nil"

\* waitForAllMetadataRefreshComplete, one pass of its loop: it returns nil
\* past the ceiling, on a failed status request and when nothing is in
\* progress
RefreshPoll ==
    /\ rPc = "refreshWait"
    /\ IF RefreshWaitExpired(rElapsed)
       THEN rPc' = "returned" /\ rErr' = RefreshTimeout /\ rExit' = "timeout" /\ rElapsed' = 0
       ELSE \E statusOk \in BOOLEAN : \E d \in CallDelays :
              IF ~statusOk
              THEN rPc' = "returned" /\ rErr' = "nil" /\ rExit' = "status error"
                   /\ rElapsed' = 0
              ELSE IF ~rBusy
              THEN rPc' = "returned" /\ rErr' = "nil" /\ rExit' = "clear" /\ rElapsed' = 0
              ELSE rPc' = rPc /\ rErr' = rErr /\ rExit' = rExit
                   /\ rElapsed' = Sleep(rElapsed + d, checkInterval)
    /\ UNCHANGED <<rBusy, rLibs, rScanned, rRefreshed, rEntry, rStatus>>
    /\ UNCHANGED <<cycleVars, matchVars, exceptRefresh>>

\* the destination ends its activity
ActivityEnds ==
    /\ rPc \in { "entry", "existing", "scanWait", "refreshWait" }
    /\ rBusy
    /\ rBusy' = FALSE
    /\ UNCHANGED <<rPc, rElapsed, rLibs, rScanned, rRefreshed, rEntry, rExit, rStatus, rErr>>
    /\ UNCHANGED <<cycleVars, matchVars, exceptRefresh>>

\* RunSyncCycle, phase 4: TriggerRefreshAndWait returned; its error ends the
\* cycle
RefreshReturned ==
    /\ pc = "refresh"
    /\ rPc = "returned"
    /\ pc' = IF rErr = "nil" THEN "match" ELSE "done"
    /\ result' = IF rErr = "nil" THEN result ELSE "library refresh failed"
    /\ UNCHANGED <<hasTransfer, itemsToSync, xferIdx, errorCount, syncedFiles, localFs, destTree,
                   destFiles, events, failures>>
    /\ UNCHANGED <<refreshVars, matchVars, exceptRefresh>>

(***************************************************************************)
(* The process: main, one-shot mode and RunContinuous                      *)
(***************************************************************************)
MaxCycles == 2

\* the destination root at process start: a stale copy of the movie's file
\* and a file of no source item
StartTree ==
    [ q \in Range(DestUniverse) |->
        IF q = File("d", "a", "m") THEN StaleSize
        ELSE IF q = File("d", "z", "m") THEN LocalSize ELSE 0 ]

\* the state after NewSyncOrchestrator returned and main deferred Close;
\* HandleForceFullSync never returns an error
MainInit ==
    /\ oneShot \in BOOLEAN
    /\ mainPc = "start"
    /\ loopPc = "off"
    /\ tickPending = FALSE
    /\ active = 0
    /\ cycles = 0
    /\ returned = <<>>
    /\ prevRun = "none"
    /\ closed = FALSE
    /\ exitHow = "none"
    /\ pc = "off"
    /\ hasTransfer \in BOOLEAN
    /\ itemsToSync = <<>>
    /\ xferIdx = 1
    /\ errorCount = 0
    /\ syncedFiles = {}
    /\ localFs = (IF hasTransfer THEN { File("l", "a", "m"), File("l", "b", "m") } ELSE {})
    /\ destTree = (IF hasTransfer THEN StartTree ELSE EmptyTree)
    /\ destFiles = <<>>
    /\ events = <<>>
    /\ failures = {}
    /\ result = "none"
    /\ mSource = <<>>
    /\ mDest = StartCatalog
    /\ mPc = "off"
    /\ mMatches = <<>>
    /\ mErr = FALSE
    /\ mLoaded = <<>>
    /\ mCompared = <<>>
    /\ mWrites = <<>>
    /\ mCounts = << 0, 0, 0 >>

\* no process is under study
MainIdle ==
    /\ oneShot = FALSE
    /\ mainPc = "off"
    /\ loopPc = "off"
    /\ tickPending = FALSE
    /\ active = 0
    /\ cycles = 0
    /\ returned = <<>>
    /\ prevRun = "none"
    /\ closed = FALSE
    /\ exitHow = "none"

\* a call of RunSyncCycle: the cycle is at its pre-flight check and has
\* issued nothing yet; the filesystems, the destination catalog and the
\* orchestrator's syncedFiles are what the previous cycle left
BeginCycle ==
    /\ pc' = "preflight"
    /\ itemsToSync' = <<>>
    /\ xferIdx' = 1
    /\ errorCount' = 0
    /\ destFiles' = <<>>
    /\ events' = <<>>
    /\ failures' = {}
    /\ result' = "none"
    /\ mSource' = <<>>
    /\ mPc' = "off"
    /\ mMatches' = <<>>
    /\ mErr' = FALSE
    /\ mLoaded' = <<>>
    /\ mCompared' = <<>>
    /\ mWrites' = <<>>
    /\ mCounts' = << 0, 0, 0 >>
    /\ active' = active + 1
    /\ cycles' = cycles + 1
    /\ UNCHANGED <<hasTransfer, syncedFiles, localFs, destTree, mDest>>

\* the transfer events a TransferFile call logged when the backend reported
\* the file as skipped
BackendSkipped == << "transfer_started", "transfer_skipped" >>

\* how a cycle went: "clean" when it returned nil, met no failure, every
\* file handed to the backend was copied and no file outside the set of
\* synced files is left on the destination; "transferred" when it returned
\* nil and every TransferFile call returned nil; "failed" otherwise
RunSummary(log, met, res, tree, synced) ==
    LET xfers == { i \in DOMAIN log : log[i][1] = "TransferFile" }
    IN  IF res # "nil" \/ (\E i \in xfers : log[i][3] # "ok") THEN "failed"
        ELSE IF /\ met = {}
                /\ \A i \in xfers : log[i][4] # BackendSkipped
                /\ { q \in DOMAIN tree : tree[q] # 0 } \subseteq synced
        THEN "clean"
        ELSE "transferred"

\* SyncOrchestrator.Close: the transfer client is closed when there is one
Close(transferConfigured) == transferConfigured

\* main, -oneshot: sync.RunSyncCycle() is called
MainOneShot ==
    /\ mainPc = "start"
    /\ oneShot
    /\ BeginCycle
    /\ mainPc' = "oneshot"
    /\ UNCHANGED <<oneShot, loopPc, tickPending, returned, prevRun, closed, exitHow>>
    /\ UNCHANGED exceptProc

\* main, -oneshot: RunSyncCycle returned; on an error log.Fatal ends the
\* process at once (os.Exit, deferred calls do not run), otherwise main
\* returns and its deferred Close runs
OneShotReturn ==
    /\ mainPc = "oneshot"
    /\ pc = "done"
    /\ active' = active - 1
    /\ returned' = Append(returned, result)
    /\ prevRun' = RunSummary(events, failures, result, destTree, syncedFiles)
    /\ mainPc' = "exited"
    /\ pc' = "off"
    /\ IF result = "nil"
       THEN /\ closed' = Close(hasTransfer)
            /\ exitHow' = "return"
       ELSE /\ exitHow' = "fatal"
            /\ UNCHANGED closed
    /\ UNCHANGED <<oneShot, loopPc, tickPending, cycles>>
    /\ UNCHANGED <<hasTransfer, itemsToSync, xferIdx, errorCount, syncedFiles, localFs, destTree,
                   destFiles, events, failures, result>>
    /\ UNCHANGED <<matchVars, exceptProc>>

\* main, continuous mode: RunContinuous is started in a goroutine and main
\* waits for a signal
MainContinuous ==
    /\ mainPc = "start"
    /\ ~oneShot
    /\ mainPc' = "waitSignal"
    /\ loopPc' = "initial"
    /\ UNCHANGED <<oneShot, tickPending, active, cycles, returned, prevRun, closed, exitHow>>
    /\ UNCHANGED <<cycleVars, matchVars, exceptProc>>

\* RunContinuous: the ticker is created and the initial cycle is called
LoopInitial ==
    /\ loopPc = "initial"
    /\ BeginCycle
    /\ loopPc' = "cycle"
    /\ UNCHANGED <<oneShot, mainPc, tickPending, returned, prevRun, closed, exitHow>>
    /\ UNCHANGED exceptProc

\* RunContinuous: the cycle it called returned; an error is logged and the
\* loop receives from the ticker
CycleReturn ==
    /\ loopPc = "cycle"
    /\ pc = "done"
    /\ loopPc' = "range"
    /\ active' = active - 1
    /\ returned' = Append(returned, result)
    /\ prevRun' = RunSummary(events, failures, result, destTree, syncedFiles)
    /\ UNCHANGED <<oneShot, mainPc, tickPending, cycles, closed, exitHow>>
    /\ UNCHANGED <<cycleVars, matchVars, exceptProc>>

\* the ticker fires: the tick is put in its channel, and dropped when the
\* channel already holds one
Tick ==
    /\ loopPc \in { "cycle", "range" }
    /\ tickPending' = TRUE
    /\ UNCHANGED <<oneShot, mainPc, loopPc, active, cycles, returned, prevRun, closed, exitHow>>
    /\ UNCHANGED <<cycleVars, matchVars, exceptProc>>

\* where RunContinuous receives from the ticker
TickReady_AnyTime(at) == at \in { "cycle", "range" }
TickReady(at) == at = "range"

\* RunContinuous: for range ticker.C receives a tick and calls the next cycle
LoopTick ==
    /\ TickReady(loopPc)
    /\ tickPending
    /\ cycles < MaxCycles
    /\ tickPending' = FALSE
    /\ BeginCycle
    /\ loopPc' = "cycle"
    /\ UNCHANGED <<oneShot, mainPc, returned, prevRun, closed, exitHow>>
    /\ UNCHANGED exceptProc

\* main, continuous mode: a signal arrives; main returns, its deferred Close
\* runs and the process ends with whatever the goroutine was doing
Signal ==
    /\ mainPc = "waitSignal"
    /\ mainPc' = "exited"
    /\ closed' = Close(hasTransfer)
    /\ exitHow' = "signal"
    /\ loopPc' = "killed"
    /\ pc' = "off"
    /\ UNCHANGED <<oneShot, tickPending, active, cycles, returned, prevRun>>
    /\ UNCHANGED <<hasTransfer, itemsToSync, xferIdx, errorCount, syncedFiles, localFs, destTree,
                   destFiles, events, failures, result>>
    /\ UNCHANGED <<matchVars, exceptProc>>

(***************************************************************************)
(* Claims on the sync cycle                                                *)
(***************************************************************************)
EventsOf(request) == { i \in DOMAIN events : events[i][1] = request }

DeletesIssued == { events[i][2] : i \in EventsOf("DeleteFile") }

CleanupRan == EventsOf("ListDirectoryContents") # {}

\* C1: the deletes the cleanup issued are exactly the paths of the listing it
\* obtained that are not in the set of synced files, and no delete was ever
\* issued for a path of that set
C1_DeletesExactlyTheOrphans ==
    /\ DeletesIssued \cap syncedFiles = {}
    /\ IF CleanupRan THEN DeletesIssued = Range(destFiles) \ syncedFiles
       ELSE DeletesIssued = {}

\* C1 witness: the cleanup listed a synced file and an orphan and issued a
\* delete
C1_Witness ==
    /\ CleanupRan
    /\ DeletesIssued # {}
    /\ Range(destFiles) \cap syncedFiles # {}

\* the phase a remote operation belongs to
PhaseOf(request) ==
    CASE request = "TransferFile" -> 3
      [] request \in { "ListDirectoryContents", "DeleteFile" } -> 4
      [] request = "TriggerLibraryScan" -> 5
      [] request = "TriggerMetadataRefresh" -> 6

ClaimedFatal ==
    { "pre-flight: TestConnection", "refresh: no scan trigger", "refresh: no refresh trigger" }

\* the failures after which RunSyncCycle returns an error
Fatal ==
    ClaimedFatal \cup { "discovery: GetLibraries", "refresh: GetLibraries",
                        "refresh: scan timeout", "matching: GetLibraries" }

\* C4 as stated: a finished cycle returned an error exactly when the
\* destination was unreachable at pre-flight, no library accepted a scan
\* trigger or no library accepted a refresh trigger
C4_ErrorOnlyForThreeConditions ==
    pc = "done" => (result # "nil" <=> failures \cap ClaimedFatal # {})

\* C4 amended: a finished cycle returned an error exactly when the
\* destination was unreachable at pre-flight, the source or the destination
\* library listing failed (discovery, refresh, matching), no library accepted
\* a scan trigger, the scans did not end before the ceiling, or no library
\* accepted a refresh trigger
C4_ErrorExactlyForFatalConditions ==
    pc = "done" => (result # "nil" <=> failures \cap Fatal # {})

\* C4 witness: a cycle returned nil although every phase met a failure it
\* survives
C4_Witness ==
    /\ pc = "done"
    /\ result = "nil"
    /\ { DiscoverySkipped, TransferSkipped, CleanupFailed, RefreshPartial,
         MatchingSkipped } \subseteq failures


\* the destination paths of the files of an item that exist locally
AttemptedPaths(item) ==
    { MapLocalPathToDest(MapSourcePathToLocal(q).path).path :
        q \in { x \in Range(ItemFilePaths(item, localFs)) :
                  MapSourcePathToLocal(x).path \in localFs } }

\* C14: in the transfer phase neither a failed transfer of a file nor a
\* failed episode listing of a series stops the run: every iteration of the
\* transfer loop, whatever it met, leaves the cycle in the transfer phase
\* with the next item, and when the episodes were listed it has handed every
\* locally present file of the item to the transfer client; the loop is
\* followed by the cleanup and the refresh phase, and a cycle that met
\* failures in the transfer phase still ends with nil unless a later phase
\* fails fatally.
C14_TransferFailuresDoNotStopRun ==
    [][ /\ (pc = "transfer" /\ ~LoopDone(xferIdx, itemsToSync))
            => /\ pc' = "transfer"
               /\ xferIdx' = xferIdx + 1
               /\ result' = "none"
               /\ \/ AttemptedPaths(itemsToSync[xferIdx])
                       \subseteq { events'[i][2] : i \in EventsOf("TransferFile")' }
                  \/ /\ itemsToSync[xferIdx].kind = "show"
                     /\ events' = events
                     /\ TransferSkipped \in failures'
        /\ (pc = "transfer" /\ LoopDone(xferIdx, itemsToSync))
            => pc' = "refresh" /\ CleanupRan'
        /\ (pc' = "done" /\ TransferSkipped \in failures' /\ failures' \cap Fatal = {})
            => /\ result' = "nil"
               /\ EventsOf("TriggerLibraryScan")' # {}
               /\ EventsOf("TriggerMetadataRefresh")' # {}
               /\ mPc' = "done"
      ]_vars

\* C14 witness: every local file exists, the transfer of a file of the first
\* item failed, the file of the second item was transferred after it, and
\* the cycle went through the later phases and returned nil
C14_Witness ==
    /\ pc = "done"
    /\ result = "nil"
    /\ localFs = Range(LocalUniverse)
    /\ TransferSkipped \in failures
    /\ destTree[File("d", "a", "m")] = StaleSize
    /\ \E i \in EventsOf("TransferFile") : \E j \in EventsOf("TransferFile") :
         /\ i < j
         /\ events[i][2] = File("d", "a", "m")
         /\ events[j][2] = File("d", "b", "m")
    /\ CleanupRan
    /\ EventsOf("TriggerMetadataRefresh") # {}
    /\ mPc = "done"

\* the TransferFile calls of the cycle that returned an error, and those
\* that returned nil (file transferred, or skipped as identical)
FailedTransfers == { events[i][2] : i \in { j \in EventsOf("TransferFile") : events[j][3] # "ok" } }

SucceededTransfers ==
    { events[i][2] : i \in { j \in EventsOf("TransferFile") : events[j][3] = "ok" } }

\* C22 as stated: when the orphan cleanup runs, every path of syncedFiles is
\* a destination path that this run transferred successfully or found
\* already present, and no path whose transfer failed is in the set.
C22_SyncedAreSucceededTransfers ==
    CleanupRan =>
        /\ syncedFiles \subseteq SucceededTransfers
        /\ FailedTransfers \cap syncedFiles = {}

\* C22 amended: when the orphan cleanup runs, syncedFiles is exactly the set
\* of destination paths this run called TransferFile for, whether the call
\* transferred the file, skipped it as identical or failed; a path whose
\* transfer failed is in the set.
C22_SyncedAreAttemptedTransfers ==
    CleanupRan =>
        /\ syncedFiles = SucceededTransfers \cup FailedTransfers
        /\ FailedTransfers \subseteq syncedFiles

\* C22 witness: the cleanup ran after one transfer that failed and one that
\* succeeded
C22_Witness ==
    /\ CleanupRan
    /\ FailedTransfers # {}
    /\ SucceededTransfers \ FailedTransfers # {}

\* C23: syncedFiles is emptied when a run's transfer phase starts, so when
\* the run's cleanup executes the set holds only paths recorded by this
\* run's TransferFile calls, whatever earlier runs recorded; and the set
\* changes only in a step that starts or continues the transfer phase.
C23_SyncedFilesBuiltFreshEachRun ==
    /\ [](CleanupRan => syncedFiles \subseteq { events[i][2] : i \in EventsOf("TransferFile") })
    /\ [][ (syncedFiles' # syncedFiles) => (pc' = "transfer") ]_vars
    /\ [][ (pc = "discover" /\ pc' = "transfer") => (syncedFiles' = {}) ]_vars

\* C23 witness: the second run's cleanup deleted the episode's file, which
\* only the first run can have put on the destination and recorded, and
\* which the second run did not record
C23_Witness ==
    /\ cycles = 2
    /\ CleanupRan
    /\ File("d", "b", "m") \in DeletesIssued
    /\ File("d", "b", "m") \notin syncedFiles

\* the destination paths of the item's files that have no local file
MissingPaths(item) ==
    { MapLocalPathToDest(MapSourcePathToLocal(q).path).path :
        q \in { x \in Range(ItemFilePaths(item, localFs)) :
                  MapSourcePathToLocal(x).path \notin localFs } }

\* C26: an iteration of the transfer loop on an item with a file whose local
\* path does not exist issues no TransferFile for that file and does not add
\* its destination path to syncedFiles; it still hands the item's other
\* files, those that exist locally, to TransferFile, and it does not count
\* the item as an error (the only counted error is a failed episode
\* listing, before any file is looked at).
C26_MissingLocalFileIsSkipped ==
    [][ (pc = "transfer" /\ ~LoopDone(xferIdx, itemsToSync)
           /\ MissingPaths(itemsToSync[xferIdx]) # {})
         => LET item == itemsToSync[xferIdx]
                new  == { events'[i][2] : i \in EventsOf("TransferFile")' \ EventsOf("TransferFile") }
            IN  /\ new \cap MissingPaths(item) = {}
                /\ (syncedFiles' \ syncedFiles) \cap MissingPaths(item) = {}
                /\ \/ /\ errorCount' = errorCount
                      /\ new = AttemptedPaths(item)
                      /\ syncedFiles' = syncedFiles \cup AttemptedPaths(item)
                   \/ /\ errorCount' = errorCount + 1
                      /\ item.kind = "show"
                      /\ events' = events
      ]_vars

\* C26 witness: the movie's media file has no local copy and its companion
\* file has one: the companion was handed to TransferFile, the media file's
\* destination path is not in syncedFiles, no error was counted
C26_Witness ==
    /\ localFs = { File("l", "a", "s") }
    /\ pc = "done"
    /\ Len(itemsToSync) = 2
    /\ errorCount = 0
    /\ File("d", "a", "s") \in { events[i][2] : i \in EventsOf("TransferFile") }
    /\ File("d", "a", "m") \notin syncedFiles
    /\ File("d", "b", "m") \notin syncedFiles

ListingFailed == \E i \in EventsOf("ListDirectoryContents") : events[i][3] = "error"

\* the files on the destination that the cleanup has to delete
OrphansOnDestination == { q \in DOMAIN destTree : destTree[q] # 0 /\ q \notin syncedFiles }

\* C27: the cleanup issues a delete for every orphan of a listing it got,
\* whether or not deletes of other orphans failed; when the listing fails it
\* issues no delete and leaves the destination tree alone; either way the
\* cycle goes on to the refresh phase, and a cycle that met failures in the
\* cleanup triggers the scans and the refreshes and returns nil unless
\* another phase fails fatally.
C27_CleanupFailuresDoNotStopRun ==
    [][ /\ (pc = "transfer" /\ LoopDone(xferIdx, itemsToSync))
            => /\ pc' = "refresh"
               /\ result' = "none"
               /\ IF ListingFailed'
                  THEN DeletesIssued' = {} /\ destTree' = destTree
                  ELSE DeletesIssued' = OrphansOnDestination \cap Range(destFiles')
        /\ (pc' = "done" /\ CleanupFailed \in failures' /\ failures' \cap Fatal = {})
            => /\ result' = "nil"
               /\ EventsOf("TriggerLibraryScan")' # {}
               /\ EventsOf("TriggerMetadataRefresh")' # {}
      ]_vars

\* C27 witness: the delete of the first orphan failed (the file is still on
\* the destination), the delete of the second orphan was issued after it and
\* succeeded, and the cycle returned nil
C27_Witness ==
    /\ pc = "done"
    /\ result = "nil"
    /\ CleanupFailed \in failures
    /\ destTree[File("d", "a", "m")] # 0
    /\ destTree[File("d", "z", "m")] = 0
    /\ \E i \in EventsOf("DeleteFile") : \E j \in EventsOf("DeleteFile") :
         /\ i < j
         /\ events[i][2] = File("d", "a", "m")
         /\ events[j][2] = File("d", "z", "m")

\* the destination paths of the backing and companion files of the items
\* discovered in the cycle
DiscoveredPaths ==
    UNION { AttemptedPaths(itemsToSync[i]) \cup MissingPaths(itemsToSync[i]) :
              i \in DOMAIN itemsToSync }

\* C33 as stated: the cleanup never deletes the destination path of a file
\* of an item discovered in the cycle, whatever failure the item met in the
\* transfer phase.
C33_DiscoveredFilesAreNeverDeleted == DeletesIssued \cap DiscoveredPaths = {}

\* C33 amended: the cleanup never deletes the destination path of a file of
\* a discovered item for which TransferFile was called, whatever the call
\* returned.
C33_AttemptedFilesAreNeverDeleted ==
    \A i \in EventsOf("TransferFile") :
        /\ events[i][2] \in DiscoveredPaths
        /\ events[i][2] \notin DeletesIssued

\* C33 witness: the transfer of the movie's file failed, its stale copy is on
\* the destination and in the cleanup's listing, and the cleanup deleted the
\* orphan and left the copy alone
C33_Witness ==
    /\ \E i \in EventsOf("TransferFile") :
         events[i][2] = File("d", "a", "m") /\ events[i][3] # "ok"
    /\ File("d", "a", "m") \in Range(destFiles)
    /\ File("d", "z", "m") \in DeletesIssued
    /\ destTree[File("d", "a", "m")] = StaleSize

\* C34: when discovery returns no items the cycle ends at once with nil: it
\* issues no request of the transfer, cleanup and refresh phases, the
\* matcher and the metadata phase do not run, and the destination tree is
\* left as it was, files of earlier runs included.
C34_NothingDiscoveredNothingDone ==
    /\ []((pc = "done" /\ itemsToSync = <<>>) =>
            (events = <<>> /\ mPc = "off" /\ mCompared = <<>> /\ mWrites = <<>>))
    /\ [][ (pc = "discover" /\ itemsToSync' = <<>>
              /\ "discovery: GetLibraries" \notin failures')
           => (/\ pc' = "done"
               /\ result' = "nil"
               /\ destTree' = destTree
               /\ events' = <<>>)
       ]_vars

\* C34 witness: both libraries failed to answer, discovery returned no item,
\* the cycle returned nil, and the orphan and the stale copy of earlier runs
\* are still on the destination
C34_Witness ==
    /\ pc = "done"
    /\ result = "nil"
    /\ itemsToSync = <<>>
    /\ hasTransfer
    /\ DiscoverySkipped \in failures
    /\ destTree[File("d", "z", "m")] # 0
    /\ destTree[File("d", "a", "m")] = StaleSize
    /\ events = <<>>

\* C29: a cycle without a transfer backend issues no TransferFile, no
\* listing and no delete of the cleanup, no scan trigger and no refresh
\* trigger, and never changes syncedFiles; after a discovery that found items
\* its next phase is the matching, and unless the matching fails the cycle
\* returns nil after the matcher ran on the discovered items and the
\* metadata phase compared every matched pair.
C29_NoBackendMeansMetadataOnly ==
    /\ [](~hasTransfer => events = <<>> /\ syncedFiles = {} /\ destFiles = <<>>)
    /\ [][ ~hasTransfer => (syncedFiles' = syncedFiles /\ destTree' = destTree) ]_vars
    /\ [][ (~hasTransfer /\ pc = "discover" /\ pc' # "done") => (pc' = "match") ]_vars
    /\ []((~hasTransfer /\ pc = "done" /\ itemsToSync # <<>>)
            => IF mErr THEN result = "content matching failed"
               ELSE /\ result = "nil"
                    /\ mPc = "done"
                    /\ mSource = itemsToSync
                    /\ Len(mCompared) = Len(mMatches))

\* C29 witness: a cycle without a backend discovered both items, matched and
\* compared, and returned nil without any request of the transfer, cleanup
\* or refresh phases
C29_Witness ==
    /\ ~hasTransfer
    /\ pc = "done"
    /\ result = "nil"
    /\ Len(itemsToSync) = 2
    /\ mMatches # <<>>
    /\ mCompared # <<>>
    /\ events = <<>>

(***************************************************************************)
(* Claims on the matching and the metadata phase                           *)
(***************************************************************************)
HoldsFile(item, name) == \E j \in DOMAIN item.files : item.files[j] # <<>> /\ Base(item.files[j]) = name

\* positions of the source item's files whose base name is indexed
IndexedPositions(item) ==
    { j \in DOMAIN item.files :
        item.files[j] # <<>> /\ \E i \in DOMAIN mLoaded : HoldsFile(mLoaded[i], Base(item.files[j])) }

FirstIndexed(item) == CHOOSE j \in IndexedPositions(item) : \A k \in IndexedPositions(item) : j <= k

MatchesOf(item) == { k \in DOMAIN mMatches : mMatches[k].SourceItem = item }

\* C6: after the matcher returned, a source item with an indexed file has
\* exactly one match, on the first of its files (in declaration order) whose
\* base name is indexed and with a loaded destination item holding that
\* name; a source item with no indexed file has no match; and the metadata
\* phase compares matched source items only
C6_FirstIndexedFileMatches ==
    mPc \in { "matched", "done" } =>
        /\ \A i \in DOMAIN mSource :
            LET item == mSource[i]
            IN  IF IndexedPositions(item) = {}
                THEN MatchesOf(item) = {}
                ELSE /\ Cardinality(MatchesOf(item)) = 1
                     /\ \A k \in MatchesOf(item) :
                          /\ mMatches[k].Filename = Base(item.files[FirstIndexed(item)])
                          /\ \E d \in DOMAIN mLoaded :
                               /\ mMatches[k].DestItem = mLoaded[d]
                               /\ HoldsFile(mLoaded[d], mMatches[k].Filename)
        /\ \A c \in DOMAIN mCompared :
             \E k \in DOMAIN mMatches : mMatches[k].SourceItem.ratingKey = mCompared[c]

\* C6 witness: the metadata phase ran on a cycle where one source item was
\* matched on its second file (the first is not indexed) and another source
\* item was dropped
C6_Witness ==
    /\ mPc = "done"
    /\ \E i \in DOMAIN mSource :
         /\ IndexedPositions(mSource[i]) # {}
         /\ FirstIndexed(mSource[i]) = 2
         /\ Len(extractFilePaths(mSource[i].files)) = 2
    /\ \E i \in DOMAIN mSource :
         /\ extractFilePaths(mSource[i].files) # <<>>
         /\ IndexedPositions(mSource[i]) = {}
    /\ Len(mCompared) = 1

\* C7: when the metadata phase is over, every matched pair whose comparison
\* reported a difference and that was counted as a success had the apply
\* operation issued for it (a destination-side write)
C7_NeedsSyncIsApplied ==
    mPc = "done" =>
        \A k \in DOMAIN mMatches :
            compareEnhancedMetadata(FullMetadata(mMatches[k].SourceItem),
                                    FullMetadata(mMatches[k].DestItem)) =>
                \E w \in DOMAIN mWrites : mWrites[w] = mMatches[k].DestItem.ratingKey


(***************************************************************************)
(* Claims on the metadata comparison                                       *)
(***************************************************************************)
SameComparedKind == cSrc.kind = cDst.kind /\ cSrc.kind \in { "movie", "show" }

\* C5: label, genre and collection comparison reports 'equal' exactly when
\* the set of distinct source tags equals the set of distinct destination
\* tags, whatever the order and the repetitions of the two lists.
C5_TagsEqualIffSameSet ==
    (cPc = "returned" /\ SameComparedKind) =>
        /\ ("genres" \notin Range(cDiffs)) <=> (Range(cSrc.genre) = Range(cDst.genre))
        /\ ("labels" \notin Range(cDiffs)) <=> (Range(cSrc.label) = Range(cDst.label))
        /\ ("collections" \notin Range(cDiffs))
              <=> (Range(cSrc.collection) = Range(cDst.collection))

\* C10: two ratings are reported as differing exactly when
\* |source*10 - dest*10| > 1, that is when they are more than two twentieths
\* apart, also when the scaled difference is not a whole number.
C10_RatingDiffersIffScaledGapAboveOne ==
    (cPc = "returned" /\ SameComparedKind) =>
        ("userRating" \in Range(cDiffs)) <=> (abs(cSrc.userRating - cDst.userRating) > 2)

\* the comparison returned for the ratings a and b (in twentieths), in either
\* order
RatingsCompared(a, b) ==
    /\ cPc = "returned"
    /\ SameComparedKind
    /\ \/ cSrc.userRating = a /\ cDst.userRating = b
       \/ cSrc.userRating = b /\ cDst.userRating = a

\* C11 as stated: the ratings 7.2 and 7.4 (144 and 148 twentieths) are
\* reported as equal, the ratings 7.2 and 7.5 (144 and 150) as differing
C11_SevenTwoEqualsSevenFour ==
    /\ RatingsCompared(144, 148) => "userRating" \notin Range(cDiffs)
    /\ RatingsCompared(144, 150) => "userRating" \in Range(cDiffs)

\* C11 amended: the ratings 7.2 and 7.4 are reported as differing (their
\* scaled difference is 2), so are 7.2 and 7.5; 7.2 and 7.3 (146) are
\* reported as equal
C11_SevenTwoDiffersFromSevenFour ==
    /\ RatingsCompared(144, 148) => "userRating" \in Range(cDiffs)
    /\ RatingsCompared(144, 150) => "userRating" \in Range(cDiffs)
    /\ RatingsCompared(144, 146) => "userRating" \notin Range(cDiffs)

\* C11 witness: the comparison returned for source 7.2 and destination 7.4
C11_Witness ==
    /\ RatingsCompared(144, 148)
    /\ cSrc.userRating = 144


(***************************************************************************)
(* Claims on the watch-state reconciliation                                *)
(***************************************************************************)
WriteTo(side) == [ to |-> side, watched |-> TRUE ]

\* C8: both sides watched: with different view counts the side with the lower
\* view count is written with the other side's state; with equal view counts
\* the side with the older last-viewed timestamp is written; with both equal
\* nothing is written.
C8_BothWatchedHigherCountWins ==
    (wPc = "returned" /\ ~wErr /\ wSrc.watched /\ wDst.watched) =>
        IF wSrc.viewCount > wDst.viewCount THEN wWrites = << WriteTo("dest") >>
        ELSE IF wDst.viewCount > wSrc.viewCount THEN wWrites = << WriteTo("source") >>
        ELSE IF wSrc.lastViewedAt > wDst.lastViewedAt THEN wWrites = << WriteTo("dest") >>
        ELSE IF wDst.lastViewedAt > wSrc.lastViewedAt THEN wWrites = << WriteTo("source") >>
        ELSE wWrites = <<>>

\* C9: exactly one side watched: the watched state is written to the
\* unwatched side exactly when the watched side's last-viewed time is newer
\* than the unwatched side's or the unwatched side has no last-viewed time;
\* otherwise nothing is written.
C9_OneWatchedNewerWins ==
    (wPc = "returned" /\ ~wErr /\ wSrc.watched # wDst.watched) =>
        LET w == IF wSrc.watched THEN wSrc ELSE wDst
            u == IF wSrc.watched THEN wDst ELSE wSrc
            unwatchedSide == IF wSrc.watched THEN "dest" ELSE "source"
        IN  IF w.lastViewedAt > u.lastViewedAt \/ u.lastViewedAt = 0
            THEN wWrites = << WriteTo(unwatchedSide) >>
            ELSE wWrites = <<>>


\* the fields the comparisons of movies and shows look at hold the same
\* values in the two items
ComparedFieldsEqual ==
    \A f \in TagFields \cup StringFields \cup IntFields \cup { "userRating" } :
        cSrc[f] = cDst[f]

\* needsSync, the first result of compareEnhancedMetadata
needsSync == Len(cDiffs) > 0

\* C39: the comparison of a pair whose source item is an episode, or whose
\* items are of different kinds, reports needsSync whatever the fields hold;
\* the comparison of two movies or of two shows with the same values in the
\* compared fields does not.
C39_NeedsSyncByKind ==
    cPc = "returned" =>
        /\ (cSrc.kind = "episode" \/ cSrc.kind # cDst.kind) => needsSync
        /\ (SameComparedKind /\ ComparedFieldsEqual) => ~needsSync

\* C39 witness: two episodes with the same values in every field were
\* compared and reported as needing a sync
C39_Witness ==
    /\ cPc = "returned"
    /\ cSrc.kind = "episode"
    /\ cDst.kind = "episode"
    /\ ComparedFieldsEqual
    /\ needsSync

\* the values a WatchedState may hold once a response is parsed into it
WatchedStates ==
    [ watched : BOOLEAN, viewCount : 0..MaxViews, viewOffset : { 0 },
      lastViewedAt : 0..MaxStamp ]

\* C36: one reconciliation never writes to both catalogs and writes to none
\* when neither side is watched: the two decisions of syncWatchedState
\* exclude each other for every pair of watched states, both are false for
\* two unwatched states, and the writes of a returned call go to one side at
\* most and are none when neither catalog holds the item as watched.
C36_OneDirectionAtMost ==
    /\ \A s \in WatchedStates : \A d \in WatchedStates :
         /\ ~(syncToDest(s, d) /\ syncToSource(s, d))
         /\ (~s.watched /\ ~d.watched) => (~syncToDest(s, d) /\ ~syncToSource(s, d))
    /\ wPc = "returned" =>
         /\ Cardinality({ wWrites[i].to : i \in DOMAIN wWrites }) <= 1
         /\ (~wSrc.watched /\ ~wDst.watched) => wWrites = <<>>

\* C36 witness: a reconciliation of an item that neither catalog holds as
\* watched returned without an error and without a write
C36_Witness ==
    /\ wPc = "returned"
    /\ ~wErr
    /\ ~wSrc.watched
    /\ ~wDst.watched
    /\ wWrites = <<>>

(***************************************************************************)
(* Claims on the unified transfer wrapper                                  *)
(***************************************************************************)
\* the call stat'ed the local file, asked for the destination size, and the
\* answer was the local file's size
SameSizeFound ==
    /\ tPc = "returned"
    /\ tIn.statOk
    /\ \E i \in 1..Len(tOut.calls) : tOut.calls[i] \in { "GetFileSize", "getFileSize" }
    /\ GetFileSize(tIn.remoteSize, tIn.sizeCmdOk) = [ ok |-> TRUE, size |-> tIn.localSize ]

\* C2: when the local file can be stat'ed and the destination size query
\* succeeds with the local file's size, TransferFile does not invoke the
\* backend's raw transfer, creates no destination directory, and returns
\* success with a 'skipped' outcome.
C2_SameSizeSkipsTransfer ==
    SameSizeFound =>
        /\ \A i \in 1..Len(tOut.calls) : tOut.calls[i] \notin { "doTransferFile", "CreateDirectory" }
        /\ tOut.ret = "ok"
        /\ tOut.log = <<"transfer_skipped">>

C2_Witness == SameSizeFound /\ tIn.wrapper = "transferClient" /\ tIn.backend = "error"

\* the unified wrapper called the backend, whose rsync found the destination
\* file up to date: it printed neither an itemize line nor a progress line
\* for the file (the destination holds a file of the local size, and the
\* wrapper's own size query had failed)
FoundUpToDate ==
    /\ tPc = "returned"
    /\ tIn.wrapper = "transferClient"
    /\ tIn.backend = "uptodate"
    /\ tIn.remoteSize = tIn.localSize
    /\ \E i \in 1..Len(tOut.calls) : tOut.calls[i] = "doTransferFile"

\* C25: when the backend's output shows the file was already up to date, the
\* unified wrapper returns success and logs a 'skipped' outcome for the
\* file, not a 'completed' outcome.
C25_UpToDateIsLoggedSkipped ==
    FoundUpToDate =>
        /\ tOut.ret = "ok"
        /\ \E i \in 1..Len(tOut.log) : tOut.log[i] = "transfer_skipped"
        /\ \A i \in 1..Len(tOut.log) : tOut.log[i] # "transfer_completed"


(***************************************************************************)
(* Claims on the library refresh                                           *)
(***************************************************************************)
\* the coordinator takes a step (the destination's activity ending is none)
CoordinatorStep == rPc' # rPc \/ rElapsed' # rElapsed

NoRefreshTriggered == EventsOf("TriggerMetadataRefresh") = {}

\* C15: when the library listing succeeded, the coordinator goes on to the
\* scan-completion wait if at least one library's scan trigger succeeded,
\* whatever the other triggers did; if none succeeded (or there is no
\* library) it returns an error, and no metadata refresh is triggered.
C15_OneScanTriggerSuffices ==
    /\ [][ (rPc = "libraries" /\ CoordinatorStep
              /\ rErr' # "failed to get destination libraries")
             => IF rScanned' # {}
                THEN rPc' = "scanWait" /\ rErr' = "none"
                ELSE rPc' = "returned" /\ rErr' = "failed to trigger any library scans"
         ]_vars
    /\ [](rErr = "failed to trigger any library scans"
            => /\ NoRefreshTriggered
               /\ rPc = "returned"
               /\ pc = "done" => result = "library refresh failed")

\* C15 witness: of two libraries one accepted the scan trigger and the
\* coordinator waits for the scans
C15_Witness ==
    /\ rPc = "scanWait"
    /\ rLibs = DestLibraryKeys
    /\ rScanned = { "2" }
    /\ Cardinality(EventsOf("TriggerLibraryScan")) = 2

\* C16: if scan activity is still in progress when the coordinator finds more
\* than 10 minutes elapsed since the scan-completion wait began,
\* TriggerRefreshAndWait returns an error, the run fails with it, and no
\* metadata refresh, matching or metadata comparison happens in that run.
C16_ScanCeilingIsFatal ==
    /\ [][ (rPc = "scanWait" /\ rBusy /\ rElapsed > maxWaitTime /\ CoordinatorStep)
             => rPc' = "returned" /\ rErr' = "library scan failed"
         ]_vars
    /\ [](rErr = "library scan failed"
            => /\ NoRefreshTriggered
               /\ mPc = "off"
               /\ mCompared = <<>>
               /\ mWrites = <<>>
               /\ pc \in { "refresh", "done" }
               /\ pc = "done" => result = "library refresh failed")

\* C16 witness: the scans were still in progress past the ceiling and the
\* cycle returned the error
C16_Witness ==
    /\ rErr = "library scan failed"
    /\ rBusy
    /\ pc = "done"
    /\ result = "library refresh failed"

\* C17 as stated: no scan is triggered while a pre-existing scan is still in
\* progress and less than 5 minutes of waiting have elapsed; once the
\* activity clears or 5 minutes elapse the coordinator goes on to trigger
\* scans; the initial wait never makes the run fail.
C17_NoScanTriggerWhileScanning ==
    /\ [][ (rPc = "libraries" /\ events' # events)
             => (~rBusy \/ rElapsed >= maxExistingWaitTime)
         ]_vars
    /\ [][ (rPc = "existing" /\ CoordinatorStep /\ (~rBusy \/ rElapsed > maxExistingWaitTime))
             => rPc' = "libraries"
         ]_vars
    /\ [][ (rPc \in { "entry", "existing" })
             => (rPc' \in { "entry", "existing", "libraries" } /\ rErr' = "none")
         ]_vars

\* C17 amended: no scan is triggered while a pre-existing scan is still in
\* progress, less than 5 minutes of waiting have elapsed and no status
\* request has failed; once the activity clears, a status request fails or 5
\* minutes elapse the coordinator goes on to trigger scans; the initial wait
\* never makes the run fail.
C17_NoScanTriggerWhileScanningUnlessStatusFails ==
    /\ [][ (rPc = "libraries" /\ events' # events)
             => (~rBusy \/ rElapsed >= maxExistingWaitTime \/ rEntry = "status error")
         ]_vars
    /\ [][ (rPc = "existing" /\ CoordinatorStep /\ (~rBusy \/ rElapsed > maxExistingWaitTime))
             => rPc' = "libraries"
         ]_vars
    /\ [][ (rPc \in { "entry", "existing" } /\ rEntry' = "status error")
             => rPc' = "libraries"
         ]_vars
    /\ [][ (rPc \in { "entry", "existing" })
             => (rPc' \in { "entry", "existing", "libraries" } /\ rErr' = "none")
         ]_vars

\* C17 witness: a pre-existing scan outlasted the 5 minutes and the scans
\* were triggered while it was in progress
C17_Witness ==
    /\ rEntry = "timeout"
    /\ rPc = "libraries"
    /\ rBusy
    /\ rElapsed > maxExistingWaitTime

\* C18: if activity is still in progress when the coordinator finds more
\* than 30 minutes elapsed since the refresh-completion wait began,
\* TriggerRefreshAndWait returns nil and the run goes on to matching and
\* the metadata comparison.
C18_RefreshCeilingIsNotFatal ==
    /\ [][ (rPc = "refreshWait" /\ rBusy /\ rElapsed > RefreshMaxWaitTime /\ CoordinatorStep)
             => rPc' = "returned" /\ rErr' = "nil" /\ rExit' = "timeout"
         ]_vars
    /\ [][ (pc = "refresh" /\ rExit = "timeout" /\ pc' # pc) => pc' = "match" ]_vars
    /\ [](rExit = "timeout" => rErr = "nil" /\ result # "library refresh failed")

\* C18 witness: the refreshes were still in progress past the ceiling, and
\* the cycle matched, compared and returned nil
C18_Witness ==
    /\ rExit = "timeout"
    /\ rBusy
    /\ pc = "done"
    /\ result = "nil"
    /\ mMatches # <<>>
    /\ mCompared # <<>>

RefreshTriggers == { events[i][2] : i \in EventsOf("TriggerMetadataRefresh") }

Unavailable == "destination server unavailable"

\* nothing of a cycle beyond its pre-flight check has happened
NothingPerformed ==
    /\ itemsToSync = <<>>
    /\ events = <<>>
    /\ destFiles = <<>>
    /\ mPc = "off"
    /\ mCompared = <<>>
    /\ mWrites = <<>>

\* C13: if the pre-flight reachability check fails, RunSyncCycle returns an
\* error without discovery, transfer, deletion, scan or refresh trigger or
\* metadata write; in continuous mode the process is not ended by it (it
\* ends on a signal only) and RunContinuous goes on to receive from the
\* ticker, where a tick starts the next cycle.
C13_UnreachableDestinationSkipsCycle ==
    /\ result = Unavailable
         => /\ NothingPerformed
            /\ "pre-flight: TestConnection" \in failures
            /\ pc \in { "done", "off" }
    /\ (~oneShot /\ mainPc = "exited") => exitHow = "signal"
    /\ (~oneShot /\ mainPc = "waitSignal" /\ Len(returned) > 0)
         => loopPc \in { "range", "cycle" }
    /\ (~oneShot /\ mainPc = "waitSignal" /\ loopPc = "range" /\ result = Unavailable
          /\ tickPending /\ cycles < MaxCycles)
         => ENABLED LoopTick

\* C13 witness: in continuous mode a cycle failed its pre-flight check and
\* the next cycle is past its own
C13_Witness ==
    /\ ~oneShot
    /\ hasTransfer
    /\ returned = << Unavailable >>
    /\ cycles = 2
    /\ pc = "transfer"

\* C19: in continuous mode at most one RunSyncCycle is active at any time; a
\* cycle is started only when none is running, and a tick that fires during
\* a running cycle waits in the ticker's channel or is dropped.
C19_CyclesNeverOverlap ==
    /\ active \in { 0, 1 }
    /\ (loopPc = "cycle") => active = 1
    /\ (loopPc = "range") => active = 0 /\ pc = "done"

\* C19 witness: a tick has fired while a cycle is between two of its phases
C19_Witness ==
    /\ ~oneShot
    /\ tickPending
    /\ active = 1
    /\ pc = "refresh"

\* C20: once the orchestrator is created, the transfer layer's session is
\* closed on every exit path of the process, a failed one-shot run and a
\* signal in continuous mode included.
C20_ClosedOnEveryExit ==
    (mainPc = "exited" /\ hasTransfer) => closed

(***************************************************************************)
(* Claims on the discovery                                                 *)
(***************************************************************************)
\* both the server-side filter and the client-side fallback fail for the
\* item's library
LibraryUnreadable(item) ==
    item.libraryID \in dIn.directFailed /\ item.libraryID \in dIn.clientSideFailed

Survives(item) == ~LibraryUnreadable(item) /\ item.ratingKey \notin dIn.failedLoads

\* C28: when the libraries were listed, DiscoverSyncableContent returns
\* without error exactly the labelled items whose full metadata could be
\* loaded and whose library answered the server-side filter or its
\* client-side fallback, in library order and then in response order: a
\* failed load drops that item only, a library lost to both filters drops
\* that library's items only.
C28_DiscoveryKeepsTheSurvivors ==
    (dPc = "returned" /\ dIn.librariesOk) =>
        /\ dOut.err = "nil"
        /\ dOut.items = SelectSeq(dIn.catalog, Survives)

\* C28 witness: of two items of the first library one could not be loaded,
\* the second library was lost to both filters, and the call returned the
\* other item of the first library
C28_Witness ==
    /\ dPc = "returned"
    /\ dIn.catalog = ItemPool
    /\ dIn.failedLoads = { "s1" }
    /\ dIn.directFailed = { "1", "2" }
    /\ dIn.clientSideFailed = { "2" }
    /\ dOut = [ err |-> "nil", items |-> << ItemPool[2] >> ]

(***************************************************************************)
(* Claims on the metadata synchronizer                                     *)
(***************************************************************************)
\* the label and genre requests of the call
FieldMutations ==
    { sOut.requests[i] : i \in { j \in DOMAIN sOut.requests :
                                   sOut.requests[j].request = "PUT" } }

\* C30: every label or genre request sent for a show carries type code 2,
\* and every one sent for a movie carries type code 1.
C30_TypeCodeFollowsItemKind ==
    sPc = "returned" =>
        \A r \in FieldMutations : r.type = (IF sIn.kind = "show" THEN 2 ELSE 1)

(***************************************************************************)
(* Claims on the termination of the library refresh                        *)
(***************************************************************************)
\* the steps of TriggerRefreshAndWait: every catalog call returns and every
\* sleep ends
RefreshSteps ==
    \/ ExistingCheck
    \/ ExistingPoll
    \/ TriggerScans
    \/ ScanPoll
    \/ TriggerRefreshes
    \/ RefreshPoll

\* C37: TriggerRefreshAndWait returns, and each of its three polling loops
\* is left only after a status request that showed no activity, after a
\* failed status request, or past its ceiling of 5, 10 and 30 minutes; the
\* time a loop has waited never exceeds its ceiling by more than one sleep
\* and one status request.
C37_TriggerRefreshAndWaitTerminates ==
    /\ <>(rPc = "returned")
    /\ [](/\ rPc = "existing" => rElapsed <= maxExistingWaitTime + MaxCallDelay + ExistingSleep
          /\ rPc = "scanWait" => rElapsed <= maxWaitTime + MaxCallDelay + pollInterval
          /\ rPc = "refreshWait" => rElapsed <= RefreshMaxWaitTime + MaxCallDelay + checkInterval)
    /\ [][ /\ (rPc = "existing" /\ rPc' # "existing")
               => \/ rEntry' = "clear" /\ ~rBusy
                  \/ rEntry' = "status error"
                  \/ rEntry' = "timeout" /\ rElapsed > maxExistingWaitTime
           /\ (rPc = "scanWait" /\ rPc' # "scanWait")
               => \/ rPc' = "refreshTrigger" /\ ~rBusy
                  \/ rPc' = "returned" /\ rElapsed > maxWaitTime
           /\ (rPc = "refreshWait" /\ rPc' # "refreshWait")
               => \/ rExit' = "clear" /\ ~rBusy
                  \/ rExit' = "status error"
                  \/ rExit' = "timeout" /\ rElapsed > RefreshMaxWaitTime
       ]_vars

\* C37 witness: the call went through its three loops, left the first two
\* when the activity had ended and the third at its ceiling, and returned
C37_Witness ==
    /\ rPc = "returned"
    /\ rEntry = "clear"
    /\ rRefreshed # {}
    /\ rExit = "timeout"
    /\ rBusy

\* C38: in the scan-completion wait a pass whose status request fails sleeps
\* and stays in the wait; the wait is left as complete only by a pass whose
\* status request answered that no scan is in progress, and otherwise it is
\* left past the 10-minute ceiling with an error.
C38_FailedStatusKeepsScanWaitGoing ==
    [][ /\ (rPc = "scanWait" /\ rElapsed <= maxWaitTime /\ rBusy' = rBusy
              /\ rStatus' = "error")
            => (/\ rPc' = "scanWait"
                /\ rElapsed' >= rElapsed + pollInterval
                /\ rErr' = rErr)
        /\ (rPc = "scanWait" /\ rPc' # "scanWait")
            => \/ rPc' = "refreshTrigger" /\ rStatus' = "idle" /\ rErr' = "none"
               \/ /\ rPc' = "returned"
                  /\ rErr' = "library scan failed"
                  /\ rElapsed > maxWaitTime
      ]_vars

\* C38 witness: the destination is idle, a status request of the wait
\* failed, and the wait slept and goes on
C38_Witness ==
    /\ rPc = "scanWait"
    /\ rStatus = "error"
    /\ ~rBusy
    /\ rElapsed >= pollInterval
    /\ rElapsed <= maxWaitTime
    /\ rErr = "none"

(***************************************************************************)
(* Claims on the path mapping of two files                                 *)
(***************************************************************************)
\* the destination path the two mappings give a source path under the
\* configuration and the implementation of the state
DestOf(sourcePath) ==
    LET local == mapSourcePathToLocal(pCfg, sourcePath)
    IN  IF ~local.ok THEN NoPath
        ELSE IF pImpl = "config" THEN Config_MapLocalPathToDest(pCfg, local.path)
        ELSE mapLocalPathToDest(pCfg, local.path)

\* C35: when the two mappings gave a source path its destination path, no
\* other source path is given the same destination path, with or without a
\* prefix replacement configured. Only paths in cleaned form are compared,
\* so that two paths are two files and not two spellings of one.
C35_DistinctSourcesDistinctDestinations ==
    (pPc = "dest" /\ pDest.ok /\ Clean(pSrc) = pSrc) =>
        \A q \in SourcePaths :
            (q # pSrc /\ Clean(q) = q /\ DestOf(q).ok) => DestOf(q).path # pDest.path

(***************************************************************************)
(* Claims on a second cycle                                                *)
(***************************************************************************)
\* the destination paths whose TransferFile call went as far as the backend
\* (LogTransferStarted is logged just before doTransferFile)
BackendInvoked ==
    { events[i][2] : i \in { j \in EventsOf("TransferFile") :
                               events[j][4] # <<>> /\ events[j][4][1] = "transfer_started" } }

\* every remote size query of the cycle was answered
SizeQueriesAnswered == \A i \in EventsOf("TransferFile") : events[i][5]

\* the second cycle of RunContinuous is under way or done, over the catalog
\* and the local files of the first and the destination tree the first left
SecondCycle == cycles = 2 /\ loopPc = "cycle"

InFlight == { f \in DOMAIN qG : qG[f] = "transfer" }

\* C40: never more than maxConcurrent TransferFile calls are in flight; the
\* call returns, for any number of files and any outcome of the transfers,
\* and when it has returned every goroutine it started has finished; it
\* returns an error exactly when a TransferFile call failed.
C40_BoundedParallelTransfers ==
    /\ [](Cardinality(InFlight) <= maxConcurrent)
    /\ <>(qMain = "returned")
    /\ [](qMain = "returned" =>
            /\ \A f \in DOMAIN qG : qG[f] = "done"
            /\ qRet # "nil" <=> qFailed # {})

\* C40 witness: more files than slots: three transfers are in flight and
\* the goroutine of the fourth file waits for the semaphore
C40_Witness ==
    /\ qFiles > maxConcurrent
    /\ Cardinality(InFlight) = maxConcurrent
    /\ \E f \in DOMAIN qG : qG[f] = "acquire"

(***************************************************************************)
(* Claims on the ssh client                                                *)
(***************************************************************************)
\* main is executing sshClient.Close
InClose == kMain \in { "Close", "client.Close", "client = nil" }

\* the goroutine of RunContinuous has a command in flight on the client
CommandInFlight == kLoop = "command"

\* C31: main never executes Close on the ssh client while the goroutine of
\* RunContinuous has a command (size query, delete, listing, mkdir) in
\* flight on it.
C31_CloseNeverRunsBesideCommand == ~(InClose /\ CommandInFlight)

(***************************************************************************)
(* Claims on Config.Validate                                               *)
(***************************************************************************)
RequiredMissing ==
    \/ vCfg.sourceHost = ""
    \/ vCfg.sourceToken = ""
    \/ vCfg.destHost = ""
    \/ vCfg.destToken = ""
    \/ vCfg.syncLabel = ""

LevelAndPerformanceValid ==
    /\ vCfg.logLevel \in { "DEBUG", "INFO", "WARN", "ERROR" }
    /\ vCfg.workerPoolSize >= 1
    /\ vCfg.plexAPIRateLimit > 0
    /\ vCfg.transferBufferSize >= 1024
    /\ vCfg.maxConcurrentTransfers >= 1

PathMappingComplete ==
    (vCfg.sourceReplaceFrom = "") = (vCfg.sourceReplaceTo = "")

DestRootPresentForSSH ==
    (vCfg.sshUser # "" /\ vCfg.sshPassword # "") => vCfg.destRootDir # ""

Remainder(path, root) == TrimPrefix(TrimPrefix(path, root), << "/" >>)

PrefixConfigured == pCfg.sourceReplaceFrom # <<>> /\ pCfg.sourceReplaceTo # <<>>

\* C12: for every source path that starts with the configured source prefix,
\* MapLocalPathToDest(MapSourcePathToLocal(p)) succeeds and yields a path
\* under the destination root whose remainder after the destination root
\* equals the remainder of the local path after the local root.
C12_RoundTripKeepsStructure ==
    (pPc = "dest" /\ PrefixConfigured /\ HasPrefix(pSrc, pCfg.sourceReplaceFrom))
        => /\ pLocal.ok
           /\ pDest.ok
           /\ HasPrefix(pDest.path, pCfg.destRootDir)
           /\ Remainder(pDest.path, pCfg.destRootDir)
                = Remainder(pLocal.path, pCfg.sourceReplaceTo)

(***************************************************************************)
(* Specifications                                                          *)
(***************************************************************************)
InitCompare == CompareInit /\ WatchIdle /\ TransferIdle /\ MatchIdle /\ CycleIdle /\ PathIdle /\ MainIdle /\ RefreshIdle /\ ValidateIdle /\ DiscoverIdle /\ SynchronizerIdle /\ SessionIdle /\ ParallelIdle

NextCompare == CompareMetadata

SpecCompare == InitCompare /\ [][NextCompare]_vars

InitWatch == WatchInit /\ CompareIdle /\ TransferIdle /\ MatchIdle /\ CycleIdle /\ PathIdle /\ MainIdle /\ RefreshIdle /\ ValidateIdle /\ DiscoverIdle /\ SynchronizerIdle /\ SessionIdle /\ ParallelIdle

NextWatch == SyncWatchedState

SpecWatch == InitWatch /\ [][NextWatch]_vars

InitTransfer == TransferInit /\ CompareIdle /\ WatchIdle /\ MatchIdle /\ CycleIdle /\ PathIdle /\ MainIdle /\ RefreshIdle /\ ValidateIdle /\ DiscoverIdle /\ SynchronizerIdle /\ SessionIdle /\ ParallelIdle

NextTransfer == TransferFile \/ TransferFileOlder

SpecTransfer == InitTransfer /\ [][NextTransfer]_vars

InitMatch == MatchInit /\ CompareIdle /\ WatchIdle /\ TransferIdle /\ CycleIdle /\ PathIdle /\ MainIdle /\ RefreshIdle /\ ValidateIdle /\ DiscoverIdle /\ SynchronizerIdle /\ SessionIdle /\ ParallelIdle

NextMatch == MatchItems \/ SyncMetadata

SpecMatch == InitMatch /\ [][NextMatch]_vars

\* one sync cycle from pre-flight to its return
Init == CycleInit /\ CompareIdle /\ WatchIdle /\ TransferIdle /\ PathIdle /\ MainIdle /\ RefreshIdle /\ ValidateIdle /\ DiscoverIdle /\ SynchronizerIdle /\ SessionIdle /\ ParallelIdle

Next ==
    \/ Preflight
    \/ Discover
    \/ TransferItem
    \/ Cleanup
    \/ Refresh
    \/ MatchPhase
    \/ MetadataPhase

Spec == Init /\ [][Next]_vars

\* one round trip of the path mapping
InitPath == PathInit /\ CompareIdle /\ WatchIdle /\ TransferIdle /\ MatchIdle /\ CycleIdle /\ MainIdle /\ RefreshIdle /\ ValidateIdle /\ DiscoverIdle /\ SynchronizerIdle /\ SessionIdle /\ ParallelIdle

NextPath == MapToLocal \/ MapToDest

SpecPath == InitPath /\ [][NextPath]_vars

\* the process from the creation of the orchestrator to its exit
InitMain == MainInit /\ CompareIdle /\ WatchIdle /\ TransferIdle /\ PathIdle /\ RefreshIdle /\ ValidateIdle /\ DiscoverIdle /\ SynchronizerIdle /\ SessionIdle /\ ParallelIdle

NextMain ==
    \/ MainOneShot
    \/ OneShotReturn
    \/ MainContinuous
    \/ LoopInitial
    \/ CycleReturn
    \/ Tick
    \/ LoopTick
    \/ Signal
    \/ Preflight
    \/ Discover
    \/ TransferItem
    \/ Cleanup
    \/ Refresh
    \/ MatchPhase
    \/ MetadataPhase

SpecMain == InitMain /\ [][NextMain]_vars

\* a cycle from its refresh phase on, the refresh poll by poll
InitRefresh == RefreshInit /\ CompareIdle /\ WatchIdle /\ TransferIdle /\ PathIdle /\ MainIdle /\ ValidateIdle /\ DiscoverIdle /\ SynchronizerIdle /\ SessionIdle /\ ParallelIdle

NextRefresh ==
    \/ ExistingCheck
    \/ ExistingPoll
    \/ TriggerScans
    \/ ScanPoll
    \/ TriggerRefreshes
    \/ RefreshPoll
    \/ ActivityEnds
    \/ RefreshReturned
    \/ MatchPhase
    \/ MetadataPhase

SpecRefresh == InitRefresh /\ [][NextRefresh]_vars

\* one call of Config.Validate
InitValidate == ValidateInit /\ CompareIdle /\ WatchIdle /\ TransferIdle /\ MatchIdle /\ CycleIdle /\ PathIdle /\ MainIdle /\ RefreshIdle /\ DiscoverIdle /\ SynchronizerIdle /\ SessionIdle /\ ParallelIdle

NextValidate == ValidateConfig

SpecValidate == InitValidate /\ [][NextValidate]_vars

\* one call of DiscoverSyncableContent
InitDiscover == DiscoverInit /\ CompareIdle /\ WatchIdle /\ TransferIdle /\ MatchIdle /\ CycleIdle /\ PathIdle /\ MainIdle /\ RefreshIdle /\ ValidateIdle /\ SynchronizerIdle /\ SessionIdle /\ ParallelIdle

NextDiscover == DiscoverContent

SpecDiscover == InitDiscover /\ [][NextDiscover]_vars

\* one call of the metadata synchronizer
InitSynchronizer == SynchronizerInit /\ CompareIdle /\ WatchIdle /\ TransferIdle /\ MatchIdle /\ CycleIdle /\ PathIdle /\ MainIdle /\ RefreshIdle /\ ValidateIdle /\ DiscoverIdle /\ SessionIdle /\ ParallelIdle

NextSynchronizer == SyncEnhancedItem

SpecSynchronizer == InitSynchronizer /\ [][NextSynchronizer]_vars

\* the ssh client in continuous mode, from the first command to the exit
InitSession == SessionInit /\ CompareIdle /\ WatchIdle /\ TransferIdle /\ MatchIdle /\ CycleIdle /\ PathIdle /\ MainIdle /\ RefreshIdle /\ ValidateIdle /\ DiscoverIdle /\ SynchronizerIdle /\ ParallelIdle

NextSession ==
    \/ ExecuteCommand
    \/ CommandReturns
    \/ SignalReceived
    \/ CloseTest
    \/ CloseConnection
    \/ CloseClearsField
    \/ ProcessExits

SpecSession == InitSession /\ [][NextSession]_vars

\* the same, with every step of TriggerRefreshAndWait taken in the end: its
\* catalog calls return and its sleeps end
SpecRefreshFair == SpecRefresh /\ WF_vars(RefreshSteps)

\* one call of TransferFilesParallel with its goroutines
InitParallel == ParallelInit /\ CompareIdle /\ WatchIdle /\ TransferIdle /\ MatchIdle /\ CycleIdle /\ PathIdle /\ MainIdle /\ RefreshIdle /\ ValidateIdle /\ DiscoverIdle /\ SynchronizerIdle /\ SessionIdle

NextParallel ==
    \/ ParallelEnter
    \/ Spawn
    \/ \E f \in DOMAIN qG : Acquire(f)
    \/ \E f \in DOMAIN qG : TransferReturns(f)
    \/ \E f \in DOMAIN qG : SendError(f)
    \/ \E f \in DOMAIN qG : Release(f)
    \/ \E f \in DOMAIN qG : Done(f)
    \/ Wait
    \/ Drain

SpecParallel == InitParallel /\ [][NextParallel]_vars

\* the same, with a scheduler that runs a goroutine that can take a step
SpecParallelFair == SpecParallel /\ WF_vars(NextParallel)

=========================================================================
